---- MODULE Spec2Model ----
(***************************************************************************)
(* A model of redust: an in-memory key-value store with per-key            *)
(* expiration and publish/subscribe, served over a Redis-like protocol.    *)
(*                                                                         *)
(* Part 1, the store (src/src/db.rs): the lock-protected State, Db::get,   *)
(* Db::set, the background reaper task and the drop of a Db handle.        *)
(*                                                                         *)
(* An Option<T> of the source is modelled as a set with at most one        *)
(* element: {} is None and {x} is Some(x).  A HashMap or BTreeMap is a     *)
(* function whose DOMAIN is the set of keys present.                       *)
(***************************************************************************)
EXTENDS Integers, Sequences, FiniteSets, TLC

\* ------------------------------------------------------------------ bounds

\* The clock runs over the instants 0..MaxTime.
MaxTime == 2

\* Expiration durations given to Db::set range over 1..MaxDuration.
MaxDuration == 2

\* At most MaxId calls of Db::set are made (next_id stays <= MaxId).
MaxId == 2

\* The admission pool holds MaxConnection permits.  The program's value is
\* MAX_CONNECTION = 250 (src/src/server.rs:37); the model runs the same code
\* with a small pool so that the pool is exhausted within the bounds.
MaxConnection == 2

\* At most MaxSpawn connections are accepted in a run of the server.
MaxSpawn == 3

\* A broadcast channel retains Capacity messages.  The program's value is
\* 1024 (src/src/db.rs:146); the model runs the same code with a small ring
\* so that a slow receiver lags within the bounds.
Capacity == 1

\* A connection handler reads at most MaxRead frames.
MaxRead == 3

\* At most MaxPublish calls of Db::publish are made.
MaxPublish == 2

\* The subscribing connections read at most MaxFrames frames in total.
MaxFrames == 2

\* ------------------------------------------------------ program constants

\* Listener::accept gives up when backoff > 64
MaxBackoff == 64

\* ------------------------------------------------------------- input sets

Keys == {"foo", "bar"}

Values == {"v1", "v2"}

\* The tasks that hold a Db handle (connection handlers).
Clients == {"c1", "c2"}

Time == 0..MaxTime

\* Option<Duration>: None, or Some(d)
Expires == {{}} \cup {{d} : d \in 1..MaxDuration}

VARIABLES
    entries,          \* State.entries: key -> Entry [id, data, expires_at]
    expirations,      \* State.expirations: <<when, id>> -> key
    next_id,          \* State.next_id
    shutdown,         \* State.shutdown
    background_task,  \* Shared.background_task: TRUE iff the Notify holds a permit
    now,              \* the clock read by Instant::now()
    reaper,           \* the task purge_expired_tasks: [pc, when]
    cli,              \* position of every client task in its Db call
    got,              \* what the last Db::get returned: [key, val]
    lastSet,          \* history: per key, the arguments of the last Db::set
    purgedAfter       \* history: per key, TRUE iff purge_expired_keys has run at or after
                      \* the expiration instant of the last Db::set on the key, since that set

storeVars == <<entries, expirations, next_id, shutdown, background_task, now,
               reaper, cli, got, lastSet, purgedAfter>>

\* Part 2, the server loop (src/src/server.rs)
VARIABLES
    permits,          \* limit_connections: the permits available in the Semaphore
    run,              \* server::run / Listener::run: [pc, backoff, ended]
    notify_shutdown,  \* TRUE while the broadcast::Sender<()> notify_shutdown is alive
    complete_tx,      \* TRUE while the Listener's own shutdown_complete_tx is alive
    hs,               \* the handler tasks: id -> [pc, shutdown, eof]
    spawned,          \* how many handlers Listener::run has spawned
    exits             \* history: how handler tasks have ended so far, a subset
                      \* of {"ok", "err", "signal"}

serverVars == <<permits, run, notify_shutdown, complete_tx, hs, spawned, exits>>

\* Part 3, publish/subscribe (src/src/db.rs, src/src/cmd/subscribe.rs).
VARIABLES
    pub_sub,          \* State.pub_sub: channel -> broadcast::Sender [rx_cnt, log]
    sub,              \* the connections that run Subscribe::apply
    out,              \* the frames written to each subscribing connection
    published,        \* the number of calls of Db::publish made so far
    pubret,           \* the last call of Db::publish: [chan, n]
    confirmed,        \* ghost: the channels each connection is confirmed on
    owed              \* ghost: the publishes each connection is to be sent

pubsubVars == <<pub_sub, sub, out, published, pubret, confirmed, owed>>

\* Part 5, one connection served by Handler::run (src/src/server.rs).
VARIABLES
    conn,             \* the handler: [pc, cmd, resp, shutdown, exit, mid]
    sent,             \* the frames written to the client and flushed
    signalled,        \* the shutdown broadcaster has been dropped
    nread             \* the frames read from the client so far

connVars == <<conn, sent, signalled, nread>>

\* The codec exercised on one frame (src/src/connection.rs, src/src/frame.rs):
\* the frame handed to write_frame, what write_frame did, the buffer handed
\* to Frame::check or Frame::parse and what they returned.
VARIABLES codec

\* One Connection reading from its stream (src/src/connection.rs): rd holds
\* the bytes the peer has still to deliver, the read buffer, the position of
\* the caller of read_frame and what the calls have returned.
VARIABLES rd

codecVars == <<codec, rd>>

\* Ghost of the last Db::get (src/src/db.rs): whether the entry it found had
\* an expiration instant that was not later than the time of the call.
VARIABLES stale

watchVars == <<stale>>

vars == <<storeVars, serverVars, pubsubVars, connVars, codecVars, watchVars>>

\* ------------------------------------------------------------ map helpers

\* HashMap::insert / BTreeMap::insert: bind key k to v, replacing a binding
MapInsert(m, k, v) == [x \in (DOMAIN m) \cup {k} |-> IF x = k THEN v ELSE m[x]]

\* HashMap::remove / BTreeMap::remove: a no-op when k is absent
MapRemove(m, k) == [x \in (DOMAIN m) \ {k} |-> m[x]]

\* HashMap::get as an Option
MapGet(m, k) == IF k \in DOMAIN m THEN {m[k]} ELSE {}

\* HashMap::new() / BTreeMap::new()
EmptyMap == [x \in {} |-> x]

\* Ord for (Instant, u64): by instant, then by id
KeyLess(p, q) == p[1] < q[1] \/ (p[1] = q[1] /\ p[2] < q[2])

\* the first key of the BTreeMap (expirations.keys().next()), for a non-empty map
FirstKey(exps) == CHOOSE p \in DOMAIN exps : \A q \in (DOMAIN exps) \ {p} : KeyLess(p, q)

\* ----------------------------------------------------------------- Db::get

\* mutant of DbGet: an entry whose expiration instant has been reached is
\* not handed out
DbGetUnexpired(ents, key) ==
    {e.data : e \in {x \in MapGet(ents, key) : \A w \in x.expires_at : w > now}}

DbGet(ents, key) == {e.data : e \in MapGet(ents, key)}

\* ----------------------------------------------------------------- Db::set

\* State::next_expiration
NextExpiration(exps) == IF DOMAIN exps = {} THEN {} ELSE {FirstKey(exps)[1]}

\* mutant of ComputeNotify: the comparison is reversed (e < when)
ComputeNotifyReversed(exps, when) ==
    IF NextExpiration(exps) = {} THEN TRUE
    ELSE \E e \in NextExpiration(exps) : e < when

\* mutant of ComputeNotify: the comparison is not strict (e >= when)
ComputeNotifyNotStrict(exps, when) ==
    IF NextExpiration(exps) = {} THEN TRUE
    ELSE \E e \in NextExpiration(exps) : e >= when

\* notify = state.next_expiration().map(|e| e > when).unwrap_or(true)
ComputeNotify(exps, when) ==
    IF NextExpiration(exps) = {} THEN TRUE
    ELSE \E e \in NextExpiration(exps) : e > when

\* mutant of TrackExpiration: the index is keyed by the instant alone, the id
\* of every record is 0
TrackExpirationByInstant(exps, id, key, expire, t) ==
    IF expire = {}
    THEN [expirations |-> exps, expires_at |-> {}, notify |-> FALSE]
    ELSE LET when == t + (CHOOSE d \in expire : TRUE)
         IN  [expirations |-> MapInsert(exps, <<when, 0>>, key),
              expires_at  |-> {when},
              notify      |-> ComputeNotify(exps, when)]

\* expire.map(|duration| { ... }): the new index, the instant and the notify flag
TrackExpiration(exps, id, key, expire, t) ==
    IF expire = {}
    THEN [expirations |-> exps, expires_at |-> {}, notify |-> FALSE]
    ELSE LET when == t + (CHOOSE d \in expire : TRUE)
         IN  [expirations |-> MapInsert(exps, <<when, id>>, key),
              expires_at  |-> {when},
              notify      |-> ComputeNotify(exps, when)]

\* mutant of ClearPrevExpiration: the old expiration record is left in the index
ClearPrevExpirationSkipped(exps, prev) == exps

\* mutant of ClearPrevExpiration: the record is looked up under the id of
\* the new entry, not under prev.id
ClearPrevExpirationNewId(exps, prev) ==
    IF \E p \in prev : p.expires_at # {}
    THEN LET p == CHOOSE p \in prev : TRUE
             when == CHOOSE w \in p.expires_at : TRUE
         IN  MapRemove(exps, <<when, p.id + 1>>)
    ELSE exps

\* if let Some(prev) = prev { if let Some(when) = prev.expires_at { remove } }
ClearPrevExpiration(exps, prev) ==
    IF \E p \in prev : p.expires_at # {}
    THEN LET p == CHOOSE p \in prev : TRUE
             when == CHOOSE w \in p.expires_at : TRUE
         IN  MapRemove(exps, <<when, p.id>>)
    ELSE exps

\* mutant of DbSetLocked: the two sets are not atomic, the entry keeps the
\* expiration of the entry it replaces when the new set gives none
DbSetLockedMerges(ents, exps, id, key, value, expire, t) ==
    LET tr   == TrackExpiration(exps, id, key, expire, t)
        prev == MapGet(ents, key)
        kept == IF expire = {} /\ prev # {}
                THEN (CHOOSE p \in prev : TRUE).expires_at
                ELSE tr.expires_at
    IN  [entries     |-> MapInsert(ents, key,
                            [id |-> id, data |-> value, expires_at |-> kept]),
         expirations |-> ClearPrevExpiration(tr.expirations, prev),
         next_id     |-> id + 1,
         notify      |-> tr.notify]

\* The critical section of Db::set, as a function of the State.
DbSetLocked(ents, exps, id, key, value, expire, t) ==
    LET tr   == TrackExpiration(exps, id, key, expire, t)
        prev == MapGet(ents, key)
    IN  [entries     |-> MapInsert(ents, key,
                            [id |-> id, data |-> value, expires_at |-> tr.expires_at]),
         expirations |-> ClearPrevExpiration(tr.expirations, prev),
         next_id     |-> id + 1,
         notify      |-> tr.notify]

\* ------------------------------------------------ Shared::purge_expired_keys

\* mutant of PurgeLoop: `if let` in place of `while let`, one record at most
\* is removed
PurgeLoopOnce(ents, exps, t) ==
    IF DOMAIN exps = {}
    THEN [entries |-> ents, expirations |-> exps, next |-> {}]
    ELSE LET k == FirstKey(exps)
         IN  IF k[1] > t
             THEN [entries |-> ents, expirations |-> exps, next |-> {k[1]}]
             ELSE [entries |-> MapRemove(ents, exps[k]),
                   expirations |-> MapRemove(exps, k),
                   next |-> NextExpiration(MapRemove(exps, k))]

\* the while-let loop: remove entries from the front of the index while they
\* are not later than now
RECURSIVE PurgeLoop(_, _, _)
PurgeLoop(ents, exps, t) ==
    IF DOMAIN exps = {}
    THEN [entries |-> ents, expirations |-> exps, next |-> {}]
    ELSE LET k == FirstKey(exps)
         IN  IF k[1] > t
             THEN [entries |-> ents, expirations |-> exps, next |-> {k[1]}]
             ELSE PurgeLoop(MapRemove(ents, exps[k]), MapRemove(exps, k), t)

\* mutant of PurgeExpiredKeys: the loop stops at `when >= now`, so an entry
\* that expires exactly now is kept
PurgeExpiredKeysStrict(ents, exps, down, t) ==
    IF down
    THEN [entries |-> ents, expirations |-> exps, next |-> {}]
    ELSE PurgeLoop(ents, exps, t - 1)

\* mutant of PurgeExpiredKeys: the index record is removed, the entry is not
PurgeExpiredKeysKeepEntries(ents, exps, down, t) ==
    IF down
    THEN [entries |-> ents, expirations |-> exps, next |-> {}]
    ELSE [PurgeLoop(ents, exps, t) EXCEPT !.entries = ents]

\* Shared::purge_expired_keys, as a function of the State and Instant::now()
PurgeExpiredKeys(ents, exps, down, t) ==
    IF down
    THEN [entries |-> ents, expirations |-> exps, next |-> {}]
    ELSE PurgeLoop(ents, exps, t)

\* ---------------------------------------------------------------- the Arc

\* Arc::strong_count(&self.shared): one per live Db handle, one for the reaper
StrongCount ==
    Cardinality({c \in Clients : cli[c] # "dropped"})
        + (IF reaper.pc = "done" THEN 0 ELSE 1)

\* ------------------------------------------------------------------- Init

StoreInit ==
    /\ entries = EmptyMap
    /\ expirations = EmptyMap
    /\ next_id = 0
    /\ shutdown = FALSE
    /\ background_task = FALSE
    /\ now = 0
    /\ reaper = [pc |-> "check", when |-> {}]
    /\ cli = [c \in Clients |-> "idle"]
    /\ got = [key |-> "", val |-> {}]
    /\ lastSet = [k \in Keys |-> {}]
    /\ purgedAfter = [k \in Keys |-> FALSE]

\* the handler ids, in the order Listener::run spawns them
HandlerIds == 1..MaxSpawn

\* what a frame read by a handler parses to: a command answered with one frame
\* (get, set, publish, unknown), a subscribe, or an unsubscribe
CommandKinds == {"simple", "subscribe", "unsubscribe"}

ServerInit ==
    /\ permits = MaxConnection
    /\ run = [pc |-> "acquire", backoff |-> 1, ended |-> ""]
    /\ notify_shutdown = TRUE
    /\ complete_tx = TRUE
    /\ hs = [h \in HandlerIds |-> [pc |-> "none", shutdown |-> FALSE, eof |-> FALSE]]
    /\ spawned = 0
    /\ exits = {}

\* ------------------------------------------------- publish/subscribe: Init

\* The channel names used by the clients.
Channels == {"a", "b"}

\* The connections that send `subscribe`.
Subscribers == {"s1", "s2"}

\* The payloads given to `publish`.
Payloads == {"hello"}

\* Subscribe::parse_frames: one channel name, then any number of others; the
\* clients of the model name one channel in a frame
SubscribeArgs == {<<c>> : c \in Channels}

\* Unsubscribe::parse_frames: any number of channel names, none included
UnsubscribeArgs == {<<>>} \cup SubscribeArgs

\* a parsed command; the fields a command does not have are empty
Cmd(kind, key, value, channels) ==
    [kind |-> kind, key |-> key, value |-> value, channels |-> channels]

NoCmd == Cmd("", "", "", <<>>)

\* a connection before its `subscribe` command; last is the command of the
\* last frame read from its client
IdleSub == [pc |-> "idle", channels |-> <<>>, subscriptions |-> <<>>,
            rx |-> {}, chan |-> "", todo |-> <<>>, frames |-> 0, last |-> NoCmd]

PubSubInit ==
    /\ pub_sub = EmptyMap
    /\ sub = [s \in Subscribers |-> IdleSub]
    /\ out = [s \in Subscribers |-> <<>>]
    /\ published = 0
    /\ pubret = [chan |-> "", n |-> 0]
    /\ confirmed = [s \in Subscribers |-> {}]
    /\ owed = [s \in Subscribers |-> {}]

\* a handler at the top of Handler::run; cmd and resp hold the command being
\* applied and its response, exit the way Handler::run ended, mid (ghost)
\* whether shutdown was signalled while a command was being applied, asked
\* (ghost) the get, set, publish and unknown commands read so far, in order
ConnInit ==
    /\ conn = [pc |-> "loop", cmd |-> {}, resp |-> {}, shutdown |-> FALSE,
               exit |-> "", mid |-> FALSE, asked |-> <<>>]
    /\ sent = <<>>
    /\ signalled = FALSE
    /\ nread = 0

\* no frame has been handed to the codec: pc is "idle", then "written",
\* "checked" or "parsed"; frame, wire, checked and parsed hold at most one
\* element and cut is the length of the buffer handed to Frame::check
CodecInit ==
    codec = [pc |-> "idle", frame |-> {}, wire |-> {}, cut |-> 0,
             checked |-> {}, parsed |-> {}]

\* a connection before its peer has sent anything: wire is what the peer
\* has still to send, buffer the read buffer of the Connection; frames
\* (ghost) the frames the peer encoded and whole (ghost) whether the peer
\* sends their encodings and nothing else; got the frames returned by the
\* calls of read_frame so far and res the result of the last call
ReaderInit ==
    rd = [pc |-> "closed", wire |-> "", buffer |-> "", frames |-> <<>>,
          whole |-> FALSE, got |-> <<>>, res |-> ""]

Init ==
    /\ StoreInit /\ ServerInit /\ PubSubInit /\ ConnInit /\ CodecInit /\ ReaderInit
    /\ stale = FALSE

\* ---------------------------------------------------------------- actions

\* time passes
Tick ==
    /\ now < MaxTime
    /\ now' = now + 1
    /\ UNCHANGED <<entries, expirations, next_id, shutdown, background_task,
                   reaper, cli, got, lastSet, purgedAfter>>

\* Db::get by client c
Get(c, key) ==
    /\ cli[c] = "idle"
    /\ got' = [key |-> key, val |-> DbGet(entries, key)]
    /\ UNCHANGED <<entries, expirations, next_id, shutdown, background_task, now,
                   reaper, cli, lastSet, purgedAfter>>

\* Db::set by client c, from taking the lock to drop(state)
Set(c, key, value, expire) ==
    /\ cli[c] = "idle"
    /\ next_id < MaxId
    /\ LET r == DbSetLocked(entries, expirations, next_id, key, value, expire, now)
       IN  /\ entries' = r.entries
           /\ expirations' = r.expirations
           /\ next_id' = r.next_id
           /\ cli' = [cli EXCEPT ![c] = IF r.notify THEN "notify" ELSE "idle"]
           /\ lastSet' = [lastSet EXCEPT ![key] =
                             {[data |-> value,
                               expires_at |-> {now + d : d \in expire}]}]
    /\ purgedAfter' = [purgedAfter EXCEPT ![key] = FALSE]
    /\ UNCHANGED <<shutdown, background_task, now, reaper, got>>

\* Db::set by client c: if notify { self.shared.background_task.notify_one() }
SetNotify(c) ==
    /\ cli[c] = "notify"
    /\ background_task' = TRUE
    /\ cli' = [cli EXCEPT ![c] = "idle"]
    /\ UNCHANGED <<entries, expirations, next_id, shutdown, now, reaper, got,
                   lastSet, purgedAfter>>

\* Drop for Db: if Arc::strong_count(&self.shared) == 2
DropCheck(c) ==
    /\ cli[c] = "idle"
    /\ cli' = [cli EXCEPT ![c] = IF StrongCount = 2 THEN "drop_lock" ELSE "drop_arc"]
    /\ UNCHANGED <<entries, expirations, next_id, shutdown, background_task, now,
                   reaper, got, lastSet, purgedAfter>>

\* Drop for Db: state.shutdown = true
DropShutdown(c) ==
    /\ cli[c] = "drop_lock"
    /\ shutdown' = TRUE
    /\ cli' = [cli EXCEPT ![c] = "drop_notify"]
    /\ UNCHANGED <<entries, expirations, next_id, background_task, now, reaper,
                   got, lastSet, purgedAfter>>

\* Drop for Db: self.shared.background_task.notify_one()
DropNotify(c) ==
    /\ cli[c] = "drop_notify"
    /\ background_task' = TRUE
    /\ cli' = [cli EXCEPT ![c] = "drop_arc"]
    /\ UNCHANGED <<entries, expirations, next_id, shutdown, now, reaper, got,
                   lastSet, purgedAfter>>

\* after Drop::drop the field `shared` is dropped: the Arc count goes down
DropArc(c) ==
    /\ cli[c] = "drop_arc"
    /\ cli' = [cli EXCEPT ![c] = "dropped"]
    /\ UNCHANGED <<entries, expirations, next_id, shutdown, background_task, now,
                   reaper, got, lastSet, purgedAfter>>

\* purge_expired_tasks: while !shared.is_shutdown()
ReaperCheck ==
    /\ reaper.pc = "check"
    /\ reaper' = [pc |-> IF shutdown THEN "done" ELSE "purge", when |-> {}]
    /\ UNCHANGED <<entries, expirations, next_id, shutdown, background_task, now,
                   cli, got, lastSet, purgedAfter>>

\* purge_expired_tasks: if let Some(when) = shared.purge_expired_keys()
ReaperPurge ==
    /\ reaper.pc = "purge"
    /\ LET r == PurgeExpiredKeys(entries, expirations, shutdown, now)
       IN  /\ entries' = r.entries
           /\ expirations' = r.expirations
           /\ reaper' = [pc |-> IF r.next = {} THEN "wait" ELSE "sleep", when |-> r.next]
    /\ purgedAfter' = [k \in Keys |->
                         \/ purgedAfter[k]
                         \/ \E ls \in lastSet[k] : \E w \in ls.expires_at : now >= w]
    /\ UNCHANGED <<next_id, shutdown, background_task, now, cli, got, lastSet>>

\* the reaper is woken by background_task.notified(), which takes the permit
ReaperNotified ==
    /\ reaper.pc \in {"sleep", "wait"}
    /\ background_task
    /\ background_task' = FALSE
    /\ reaper' = [pc |-> "check", when |-> {}]
    /\ UNCHANGED <<entries, expirations, next_id, shutdown, now, cli, got,
                   lastSet, purgedAfter>>

\* the reaper is woken by time::sleep_until(when)
ReaperTimeout ==
    /\ reaper.pc = "sleep"
    /\ \E w \in reaper.when : now >= w
    /\ reaper' = [pc |-> "check", when |-> {}]
    /\ UNCHANGED <<entries, expirations, next_id, shutdown, background_task, now,
                   cli, got, lastSet, purgedAfter>>

ReaperStep == ReaperCheck \/ ReaperPurge \/ ReaperNotified \/ ReaperTimeout

\* The store used by connection handlers that keep their Db handles.
StoreStep ==
    \/ Tick
    \/ \E c \in Clients, k \in Keys : Get(c, k)
    \/ \E c \in Clients, k \in Keys, v \in Values, e \in Expires : Set(c, k, v, e)
    \/ \E c \in Clients : SetNotify(c)
    \/ ReaperCheck
    \/ ReaperPurge
    \/ ReaperNotified
    \/ ReaperTimeout

StoreNext == StoreStep /\ UNCHANGED <<serverVars, pubsubVars, connVars, codecVars, watchVars>>

StoreSpec == Init /\ [][StoreNext]_vars

\* The tokio scheduler runs every task that is ready: the reaper's steps and
\* the rest of a Db::set that has released the lock are taken eventually.
\* Nothing forces the clock to advance or a client to issue a command.
StoreFairness ==
    /\ WF_vars(ReaperStep /\ UNCHANGED <<serverVars, pubsubVars, connVars, codecVars, watchVars>>)
    /\ \A c \in Clients : WF_vars(SetNotify(c) /\ UNCHANGED <<serverVars, pubsubVars, connVars, codecVars, watchVars>>)

\* Db::get changes nothing but `got` and wakes nobody: the liveness of the
\* reaper is checked over the steps that write the State or the Notify.
StoreLiveStep ==
    \/ Tick
    \/ \E c \in Clients, k \in Keys, v \in Values, e \in Expires : Set(c, k, v, e)
    \/ \E c \in Clients : SetNotify(c)
    \/ ReaperCheck
    \/ ReaperPurge
    \/ ReaperNotified
    \/ ReaperTimeout

StoreLiveNext == StoreLiveStep /\ UNCHANGED <<serverVars, pubsubVars, connVars, codecVars, watchVars>>

StoreLiveSpec == Init /\ [][StoreLiveNext]_vars /\ StoreFairness

\* ------------------------------------------------------------ store claims

\* key k holds an entry whose expiration instant has been reached
Expired(k) ==
    /\ k \in DOMAIN entries
    /\ \E w \in entries[k].expires_at : w <= now

\* C1: a Db::get(k) that takes the lock after Db::set(k, v, None), with no
\* other set on k in between, returns Some(v), whatever the other clients
\* and the reaper did in between.
C1_GetReturnsLastSet ==
    [][\A c \in Clients, k \in Keys :
          Get(c, k) =>
              \A ls \in lastSet[k] : ls.expires_at = {} => got'.val = {ls.data}]_vars

\* C1 witness: two sets were made, the last one on "foo" without expiration,
\* the other on "bar", the reaper has purged, and get("foo") returned the value.
C1_Witness ==
    /\ got = [key |-> "foo", val |-> {"v2"}]
    /\ lastSet["foo"] = {[data |-> "v2", expires_at |-> {}]}
    /\ lastSet["bar"] # {}
    /\ "bar" \notin DOMAIN entries
    /\ reaper.pc = "wait"

\* C2: after Db::set(k, v, Some(d)) with no later set on k, once
\* purge_expired_keys has run at or after the set's instant + d, Db::get(k)
\* returns None.
C2_GetAbsentAfterPurge ==
    [][\A c \in Clients, k \in Keys :
          (Get(c, k) /\ purgedAfter[k]) => got'.val = {}]_vars

\* C2 witness: "foo" was set with an expiration, the purge has run after the
\* expiration instant, and a get of "foo" returned None.
C2_Witness ==
    /\ purgedAfter["foo"]
    /\ \E ls \in lastSet["foo"] : ls.expires_at # {}
    /\ got = [key |-> "foo", val |-> {}]

\* C3: no lost wakeup.  While the store is not shut down, an entry whose
\* expiration instant has been reached is eventually removed (or replaced by
\* a later set), and the reaper does not stay suspended while the earliest
\* instant of the index has been reached, for every interleaving of sets.
C3_NoLostWakeup ==
    /\ \A k \in Keys : (Expired(k) /\ ~shutdown) ~> (~Expired(k) \/ shutdown)
    /\ (/\ reaper.pc \in {"sleep", "wait"}
        /\ \E w \in NextExpiration(expirations) : w <= now
        /\ ~shutdown)
          ~> (reaper.pc \notin {"sleep", "wait"} \/ shutdown)

\* C3 witness: the reaper found no expiration and is suspended on notified(),
\* a set that came after its purge has stored a permit, and the entry of that
\* set has expired.
C3_Witness ==
    /\ reaper.pc = "wait"
    /\ background_task
    /\ \E k \in Keys : Expired(k)

\* C4: <<instant, id>> is a key of expirations iff entries holds an entry
\* with that id and that expires_at, and the index maps the pair to the key
\* of that entry.
C4_IndexMatchesEntries ==
    /\ \A p \in DOMAIN expirations :
          /\ expirations[p] \in DOMAIN entries
          /\ entries[expirations[p]].id = p[2]
          /\ entries[expirations[p]].expires_at = {p[1]}
    /\ \A k \in DOMAIN entries :
          \A w \in entries[k].expires_at :
              /\ <<w, entries[k].id>> \in DOMAIN expirations
              /\ expirations[<<w, entries[k].id>>] = k

\* C4 witness: after sets and a purge, one key with an expiration is left
\* in the index, the other was replaced or purged.
C4_Witness ==
    /\ next_id = MaxId
    /\ Cardinality(DOMAIN expirations) = 1
    /\ \E k \in Keys : lastSet[k] # {} /\ k \notin DOMAIN entries
    /\ \E k \in DOMAIN entries : entries[k].expires_at # {}

\* ================================================================ server loop

\* handler h is a live task: spawned, and its Handler not dropped yet
Running(h) == hs[h].pc \notin {"none", "dropped"}

LiveHandlers == {h \in HandlerIds : Running(h)}

\* mutant of AcquireForget: the permit is not forgotten, so it goes back to
\* the pool when the statement ends
AcquireNoForget(p) == p

\* self.limit_connections.acquire().await.unwrap().forget()
AcquireForget(p) == p - 1

\* mutant of AddPermits: the permit is released twice
AddPermitsTwice(p) == p + 2

\* Drop for Handler: self.limit_connections.add_permits(1)
AddPermits(p) == p + 1

\* mutant of CompletionSenders: the handlers are not given a clone of the sender
CompletionSendersNoClone == IF complete_tx THEN 1 ELSE 0

\* the mpsc::Sender<()> values alive: shutdown_complete_tx of the Listener and
\* the clone _shutdown_complete of every live Handler
CompletionSenders ==
    (IF complete_tx THEN 1 ELSE 0) + Cardinality(LiveHandlers)

\* Shutdown::is_shutdown: the flag of the handler's Shutdown
IsShutdown(h) == hs[h].shutdown

\* Shutdown::recv completes when the shutdown broadcaster has been dropped
ShutdownRecvReady(h) == hs[h].shutdown \/ ~notify_shutdown

\* the task of handler h ends: Drop for Handler returns the permit, then the
\* fields (the completion sender among them) are dropped
HandlerExit(h, how) ==
    /\ hs' = [hs EXCEPT ![h] = [pc |-> "dropped", shutdown |-> FALSE, eof |-> FALSE]]
    /\ permits' = AddPermits(permits)
    /\ exits' = exits \cup {how}

\* Listener::run: wait for a permit
ListenerAcquire ==
    /\ run.pc = "acquire"
    /\ permits > 0
    /\ permits' = AcquireForget(permits)
    /\ run' = [run EXCEPT !.pc = "accept", !.backoff = 1]
    /\ UNCHANGED <<notify_shutdown, complete_tx, hs, spawned, exits>>

\* Listener::accept returns a socket; Listener::run spawns the handler
AcceptOk ==
    /\ run.pc = "accept"
    /\ spawned < MaxSpawn
    /\ spawned' = spawned + 1
    /\ hs' = [hs EXCEPT ![spawned + 1] =
                 [pc |-> "loop", shutdown |-> FALSE, eof |-> FALSE]]
    /\ run' = [run EXCEPT !.pc = "acquire"]
    /\ UNCHANGED <<permits, notify_shutdown, complete_tx, exits>>

\* mutant of AcceptErr: the test is backoff >= 64, so the error is returned
\* one failure earlier
AcceptErrOneEarlier ==
    /\ run.pc = "accept"
    /\ run' = IF run.backoff >= MaxBackoff
              THEN [run EXCEPT !.pc = "teardown", !.ended = "accept_failed"]
              ELSE [run EXCEPT !.pc = "sleep"]
    /\ UNCHANGED <<permits, notify_shutdown, complete_tx, hs, spawned, exits>>

\* Listener::accept: the accept fails; give up if backoff > 64, else sleep
AcceptErr ==
    /\ run.pc = "accept"
    /\ run' = IF run.backoff > MaxBackoff
              THEN [run EXCEPT !.pc = "teardown", !.ended = "accept_failed"]
              ELSE [run EXCEPT !.pc = "sleep"]
    /\ UNCHANGED <<permits, notify_shutdown, complete_tx, hs, spawned, exits>>

\* Listener::accept: time::sleep(backoff) is over; backoff *= 2
AcceptBackoff ==
    /\ run.pc = "sleep"
    /\ run' = [run EXCEPT !.pc = "accept", !.backoff = 2 * run.backoff]
    /\ UNCHANGED <<permits, notify_shutdown, complete_tx, hs, spawned, exits>>

\* server::run: the shutdown future completes first; server.run() is dropped
ShutdownFuture ==
    /\ run.pc \in {"acquire", "accept", "sleep"}
    /\ run' = [run EXCEPT !.pc = "teardown", !.ended = "shutdown"]
    /\ UNCHANGED <<permits, notify_shutdown, complete_tx, hs, spawned, exits>>

\* mutant of RunTeardown: notify_shutdown is not dropped
RunTeardownKeepsBroadcaster ==
    /\ run.pc = "teardown"
    /\ complete_tx' = FALSE
    /\ run' = [run EXCEPT !.pc = "recv"]
    /\ UNCHANGED <<permits, notify_shutdown, hs, spawned, exits>>

\* server::run: drop(notify_shutdown); drop(shutdown_complete_tx)
RunTeardown ==
    /\ run.pc = "teardown"
    /\ notify_shutdown' = FALSE
    /\ complete_tx' = FALSE
    /\ run' = [run EXCEPT !.pc = "recv"]
    /\ UNCHANGED <<permits, hs, spawned, exits>>

\* server::run: shutdown_complete_rx.recv() returns None; run returns Ok(())
RunReturn ==
    /\ run.pc = "recv"
    /\ CompletionSenders = 0
    /\ run' = [run EXCEPT !.pc = "returned"]
    /\ UNCHANGED <<permits, notify_shutdown, complete_tx, hs, spawned, exits>>

\* Handler::run: while !self.shutdown.is_shutdown()
HLoop(h) ==
    /\ hs[h].pc = "loop"
    /\ IF IsShutdown(h)
       THEN HandlerExit(h, "signal")
       ELSE hs' = [hs EXCEPT ![h].pc = "select"] /\ UNCHANGED <<permits, exits>>
    /\ UNCHANGED <<run, notify_shutdown, complete_tx, spawned>>

\* Handler::run: read_frame returns a frame and Command::from_frame a command
HReadFrame(h, kind) ==
    /\ hs[h].pc = "select"
    /\ ~hs[h].eof
    /\ IF kind = "unsubscribe"
       THEN HandlerExit(h, "err")
       ELSE /\ hs' = [hs EXCEPT ![h].pc =
                         IF kind = "subscribe" THEN "sub_drain" ELSE "apply"]
            /\ UNCHANGED <<permits, exits>>
    /\ UNCHANGED <<run, notify_shutdown, complete_tx, spawned>>

\* Handler::run: read_frame returns Ok(None), the stream has ended
HReadEof(h) ==
    /\ hs[h].pc = "select"
    /\ HandlerExit(h, "ok")
    /\ UNCHANGED <<run, notify_shutdown, complete_tx, spawned>>

\* Handler::run: read_frame or Command::from_frame returns an error
HReadErr(h) ==
    /\ hs[h].pc = "select"
    /\ ~hs[h].eof
    /\ HandlerExit(h, "err")
    /\ UNCHANGED <<run, notify_shutdown, complete_tx, spawned>>

\* Handler::run: the select arm self.shutdown.recv()
HShutdownRecv(h) ==
    /\ hs[h].pc = "select"
    /\ ShutdownRecvReady(h)
    /\ HandlerExit(h, "signal")
    /\ UNCHANGED <<run, notify_shutdown, complete_tx, spawned>>

\* Command::apply of a get, set, publish or unknown: the response is written
HApplyDone(h) ==
    /\ hs[h].pc = "apply"
    /\ hs' = [hs EXCEPT ![h].pc = "loop"]
    /\ UNCHANGED <<permits, run, notify_shutdown, complete_tx, spawned, exits>>

\* a write_frame fails: the error ends Handler::run
HWriteErr(h) ==
    /\ hs[h].pc \in {"apply", "sub_drain", "sub_write"}
    /\ HandlerExit(h, "err")
    /\ UNCHANGED <<run, notify_shutdown, complete_tx, spawned>>

\* Subscribe::apply: the channels are subscribed and confirmed
HSubDrain(h) ==
    /\ hs[h].pc = "sub_drain"
    /\ hs' = [hs EXCEPT ![h].pc = "sub_select"]
    /\ UNCHANGED <<permits, run, notify_shutdown, complete_tx, spawned, exits>>

\* Subscribe::apply: a message arrives on a subscribed channel
HSubMessage(h) ==
    /\ hs[h].pc = "sub_select"
    /\ hs' = [hs EXCEPT ![h].pc = "sub_write"]
    /\ UNCHANGED <<permits, run, notify_shutdown, complete_tx, spawned, exits>>

\* Subscribe::apply: read_frame returns a frame; handle_command
HSubFrame(h, kind) ==
    /\ hs[h].pc = "sub_select"
    /\ ~hs[h].eof
    /\ hs' = [hs EXCEPT ![h].pc =
                 IF kind = "subscribe" THEN "sub_drain" ELSE "sub_write"]
    /\ UNCHANGED <<permits, run, notify_shutdown, complete_tx, spawned, exits>>

\* Subscribe::apply: read_frame returns Ok(None); apply returns Ok(())
HSubEof(h) ==
    /\ hs[h].pc = "sub_select"
    /\ ~hs[h].eof
    /\ hs' = [hs EXCEPT ![h].pc = "loop", ![h].eof = TRUE]
    /\ UNCHANGED <<permits, run, notify_shutdown, complete_tx, spawned, exits>>

\* Subscribe::apply: read_frame or Command::from_frame returns an error
HSubReadErr(h) ==
    /\ hs[h].pc = "sub_select"
    /\ ~hs[h].eof
    /\ HandlerExit(h, "err")
    /\ UNCHANGED <<run, notify_shutdown, complete_tx, spawned>>

\* Subscribe::apply: the select arm shutdown.recv(); apply returns Ok(())
HSubShutdown(h) ==
    /\ hs[h].pc = "sub_select"
    /\ ShutdownRecvReady(h)
    /\ hs' = [hs EXCEPT ![h].pc = "loop", ![h].shutdown = TRUE]
    /\ UNCHANGED <<permits, run, notify_shutdown, complete_tx, spawned, exits>>

\* Subscribe::apply: the frame of a message or of a confirmation is written
HSubWritten(h) ==
    /\ hs[h].pc = "sub_write"
    /\ hs' = [hs EXCEPT ![h].pc = "sub_select"]
    /\ UNCHANGED <<permits, run, notify_shutdown, complete_tx, spawned, exits>>

ServerStep ==
    \/ ListenerAcquire
    \/ AcceptOk
    \/ AcceptErr
    \/ AcceptBackoff
    \/ ShutdownFuture
    \/ RunTeardown
    \/ RunReturn
    \/ \E h \in HandlerIds : HLoop(h)
    \/ \E h \in HandlerIds, kind \in CommandKinds : HReadFrame(h, kind)
    \/ \E h \in HandlerIds : HReadEof(h)
    \/ \E h \in HandlerIds : HReadErr(h)
    \/ \E h \in HandlerIds : HShutdownRecv(h)
    \/ \E h \in HandlerIds : HApplyDone(h)
    \/ \E h \in HandlerIds : HWriteErr(h)
    \/ \E h \in HandlerIds : HSubDrain(h)
    \/ \E h \in HandlerIds : HSubMessage(h)
    \/ \E h \in HandlerIds, kind \in CommandKinds : HSubFrame(h, kind)
    \/ \E h \in HandlerIds : HSubEof(h)
    \/ \E h \in HandlerIds : HSubReadErr(h)
    \/ \E h \in HandlerIds : HSubShutdown(h)
    \/ \E h \in HandlerIds : HSubWritten(h)

ServerNext == ServerStep /\ UNCHANGED <<storeVars, pubsubVars, connVars, codecVars, watchVars>>

ServerSpec == Init /\ [][ServerNext]_vars

\* a step of handler h that waits for nothing but the task being scheduled
\* and a stream write completing
HProgress(h) == HLoop(h) \/ HApplyDone(h) \/ HSubDrain(h) \/ HSubWritten(h)

\* Fair scheduling: a ready task runs, and a stream write ends.  tokio's
\* select! polls its arms in random order, so an arm that is ready again and
\* again (shutdown.recv()) is taken eventually even if frames keep arriving:
\* strong fairness.  Nothing forces a client to send, the accept to return or
\* the shutdown future to complete.
ServerFairness ==
    /\ WF_vars(RunTeardown /\ UNCHANGED <<storeVars, pubsubVars, connVars, codecVars, watchVars>>)
    /\ WF_vars(RunReturn /\ UNCHANGED <<storeVars, pubsubVars, connVars, codecVars, watchVars>>)
    /\ \A h \in HandlerIds :
          /\ WF_vars(HProgress(h) /\ UNCHANGED <<storeVars, pubsubVars, connVars, codecVars, watchVars>>)
          /\ SF_vars(HShutdownRecv(h) /\ UNCHANGED <<storeVars, pubsubVars, connVars, codecVars, watchVars>>)
          /\ SF_vars(HSubShutdown(h) /\ UNCHANGED <<storeVars, pubsubVars, connVars, codecVars, watchVars>>)

\* The server whose accept never fails: the failures of Listener::accept and
\* its backoff happen before the shutdown future completes and are left out
\* of the liveness check.
ServerLiveStep ==
    \/ ListenerAcquire
    \/ AcceptOk
    \/ ShutdownFuture
    \/ RunTeardown
    \/ RunReturn
    \/ \E h \in HandlerIds : HLoop(h)
    \/ \E h \in HandlerIds, kind \in CommandKinds : HReadFrame(h, kind)
    \/ \E h \in HandlerIds : HReadEof(h)
    \/ \E h \in HandlerIds : HReadErr(h)
    \/ \E h \in HandlerIds : HShutdownRecv(h)
    \/ \E h \in HandlerIds : HApplyDone(h)
    \/ \E h \in HandlerIds : HWriteErr(h)
    \/ \E h \in HandlerIds : HSubDrain(h)
    \/ \E h \in HandlerIds : HSubMessage(h)
    \/ \E h \in HandlerIds, kind \in CommandKinds : HSubFrame(h, kind)
    \/ \E h \in HandlerIds : HSubEof(h)
    \/ \E h \in HandlerIds : HSubReadErr(h)
    \/ \E h \in HandlerIds : HSubShutdown(h)
    \/ \E h \in HandlerIds : HSubWritten(h)

ServerLiveNext == ServerLiveStep /\ UNCHANGED <<storeVars, pubsubVars, connVars, codecVars, watchVars>>

ServerLiveSpec == Init /\ [][ServerLiveNext]_vars /\ ServerFairness

\* ----------------------------------------------------------- server claims

\* 1 while Listener::run has taken a permit for a connection it is still
\* waiting for (in Listener::accept), else 0
HeldByAccept == IF run.pc \in {"accept", "sleep"} THEN 1 ELSE 0

\* C7: the handlers alive never exceed the connection limit, and when `limit`
\* handlers are alive the accept loop is not accepting: it is blocked on
\* acquire() with no permit available (or the server is shutting down).
C7_ConnectionLimit ==
    /\ Cardinality(LiveHandlers) <= MaxConnection
    /\ Cardinality(LiveHandlers) = MaxConnection =>
          /\ run.pc \notin {"accept", "sleep"}
          /\ run.pc = "acquire" => permits = 0

\* C7 witness: the pool is exhausted a second time: a handler exited, the
\* connection that was waiting was accepted, and the accept loop is blocked.
C7_Witness ==
    /\ Cardinality(LiveHandlers) = MaxConnection
    /\ spawned > MaxConnection
    /\ run.pc = "acquire"
    /\ permits = 0

\* C8: available permits + live handlers + the permit held by the accept loop
\* never exceed the limit, and every step that ends a handler task (with Ok
\* or with an error) returns exactly one permit.
C8_PermitAccounting ==
    /\ [](permits + Cardinality(LiveHandlers) + HeldByAccept <= MaxConnection)
    /\ [][\A h \in HandlerIds :
             (Running(h) /\ hs'[h].pc = "dropped") => permits' = permits + 1]_vars

\* C8 witness: one handler ended at end-of-stream (Ok), another ended with an
\* error, and the pool is full again.
C8_Witness ==
    /\ {"ok", "err"} \subseteq exits
    /\ spawned >= 2
    /\ LiveHandlers = {}
    /\ run.pc = "acquire"
    /\ permits = MaxConnection

\* C9: server::run has returned only if every spawned handler has exited
\* (dropped its completion sender), whether run ended by the shutdown future
\* or by a failure of the accept loop.
C9_RunReturnsAfterHandlers ==
    run.pc = "returned" => \A h \in HandlerIds : ~Running(h)

\* C9 witness: run has returned after a shutdown during which handlers were
\* still running (they exited on the signal).
C9_Witness ==
    /\ run.pc = "returned"
    /\ spawned = MaxSpawn
    /\ "signal" \in exits

\* C10: after the shutdown future has completed, every handler exits and
\* server::run returns, under fair scheduling.
C10_ShutdownCompletes ==
    (run.ended = "shutdown")
        ~> (run.pc = "returned" /\ \A h \in HandlerIds : ~Running(h))

\* C10 witness: the broadcaster has been dropped while one handler waits in
\* the subscribe loop and another waits for its next frame.
C10_Witness ==
    /\ run.ended = "shutdown"
    /\ ~notify_shutdown
    /\ \E h1, h2 \in HandlerIds :
          hs[h1].pc = "sub_select" /\ hs[h2].pc = "select"

\* ===================================================================
\* Part 3, publish/subscribe: Db::subscribe, Db::publish and the loop of
\* Subscribe::apply (src/src/db.rs, src/src/cmd/subscribe.rs).
\*
\* A broadcast channel is [rx_cnt, log]: the number of receivers alive and
\* the messages sent so far, each tagged with the number of the publish
\* that sent it.  The ring of the channel retains the last Capacity
\* messages of the log.  A receiver is [name, next]: the channel it was
\* created on and the position in the log of the next message it reads.
\* ===================================================================

Max(x, y) == IF x >= y THEN x ELSE y

\* Db::subscribe: Entry::Occupied => e.get().subscribe(); Entry::Vacant =>
\* broadcast::channel(1024), the sender is stored and the receiver returned.
\* A new receiver reads from the tail of the channel.
DbSubscribe(ps, c) ==
    IF c \in DOMAIN ps
    THEN [pub_sub |-> [ps EXCEPT ![c].rx_cnt = @ + 1],
          rx      |-> [name |-> c, next |-> Len(ps[c].log) + 1]]
    ELSE [pub_sub |-> MapInsert(ps, c, [rx_cnt |-> 1, log |-> <<>>]),
          rx      |-> [name |-> c, next |-> 1]]

\* broadcast::Sender::send: Err when no receiver is alive (nothing is
\* queued), else the message is queued and Ok(rx_cnt) returned
BroadcastSend(tx, m) ==
    IF tx.rx_cnt = 0
    THEN [ok |-> FALSE, n |-> 0, tx |-> tx]
    ELSE [ok |-> TRUE, n |-> tx.rx_cnt, tx |-> [tx EXCEPT !.log = Append(@, m)]]

\* mutant of DbPublish: the channel is created when it is missing
DbPublishCreates(ps, c, m) ==
    IF c \in DOMAIN ps
    THEN LET r == BroadcastSend(ps[c], m)
         IN  [pub_sub |-> [ps EXCEPT ![c] = r.tx], n |-> IF r.ok THEN r.n ELSE 0]
    ELSE [pub_sub |-> MapInsert(ps, c, [rx_cnt |-> 0, log |-> <<>>]), n |-> 0]

\* Db::publish:
\*   state.pub_sub.get(key).map(|tx| tx.send(value).unwrap_or(0)).unwrap_or(0)
DbPublish(ps, c, m) ==
    IF c \in DOMAIN ps
    THEN LET r == BroadcastSend(ps[c], m)
         IN  [pub_sub |-> [ps EXCEPT ![c] = r.tx], n |-> IF r.ok THEN r.n ELSE 0]
    ELSE [pub_sub |-> ps, n |-> 0]

\* Drop for broadcast::Receiver: one receiver less on its channel
DropReceiver(ps, c) == [ps EXCEPT ![c].rx_cnt = @ - 1]

\* the receivers of a whole StreamMap are dropped
RECURSIVE DropAll(_, _)
DropAll(ps, subs) ==
    IF subs = <<>> THEN ps
    ELSE DropAll(DropReceiver(ps, Head(subs).name), Tail(subs))

\* the first message of the log that the ring of the channel still holds
Oldest(tx) == Max(1, Len(tx.log) - Capacity + 1)

\* rx.recv() has a result: a message or RecvError::Lagged
RecvReady(tx, rx) == rx.next <= Len(tx.log)

\* the stream built in subscribe_to_channel: Ok(msg) => yield msg;
\* Err(Lagged(_)) => {} and the receiver continues at the oldest message held
StreamNext(tx, rx) ==
    LET at == Max(rx.next, Oldest(tx))
    IN  [msg |-> tx.log[at], rx |-> [rx EXCEPT !.next = at + 1]]

\* the position of key c in the entries of a StreamMap, 0 when absent
IndexOf(subs, c) ==
    IF \E i \in 1..Len(subs) : subs[i].name = c
    THEN CHOOSE i \in 1..Len(subs) : subs[i].name = c
    ELSE 0

\* Vec::swap_remove(i): the last element takes the place of the i-th
SwapRemove(subs, i) ==
    [j \in 1..(Len(subs) - 1) |-> IF j = i THEN subs[Len(subs)] ELSE subs[j]]

\* StreamMap::remove
StreamMapRemove(subs, c) ==
    IF IndexOf(subs, c) = 0 THEN subs ELSE SwapRemove(subs, IndexOf(subs, c))

\* StreamMap::insert: let ret = self.remove(&k); self.entries.push((k, stream))
StreamMapInsert(subs, rx) == Append(StreamMapRemove(subs, rx.name), rx)

\* StreamMap::keys, in the order of the entries
StreamMapKeys(subs) == [i \in 1..Len(subs) |-> subs[i].name]

\* the frames of make_subscribe_frame, make_unsubscribe_frame and
\* make_message_frame; id is the number of the publish a message came from
SubscribeFrame(c, n) ==
    [type |-> "subscribe", chan |-> c, msg |-> "", num |-> n, id |-> 0]

UnsubscribeFrame(c, n) ==
    [type |-> "unsubscribe", chan |-> c, msg |-> "", num |-> n, id |-> 0]

MessageFrame(c, m) ==
    [type |-> "message", chan |-> c, msg |-> m.msg, num |-> 0, id |-> m.id]

\* mutant of LoopPc: with nothing left to subscribe or unsubscribe
\* Subscribe::apply returns
LoopPcReturns(channels, todo) ==
    IF channels # <<>> THEN "drain" ELSE IF todo # <<>> THEN "unsub" ELSE "closed"

\* the loop of Subscribe::apply is at its select! unless channels remain to
\* be subscribed or unsubscribed
LoopPc(channels, todo) ==
    IF channels # <<>> THEN "drain" ELSE IF todo # <<>> THEN "unsub" ELSE "select"

\* ------------------------------------------------ publish/subscribe: actions

RECURSIVE SumFrames(_)
SumFrames(S) ==
    IF S = {} THEN 0
    ELSE LET s == CHOOSE x \in S : TRUE IN sub[s].frames + SumFrames(S \ {s})

\* the frames read so far from the clients of the subscribing connections
FramesRead == SumFrames(Subscribers)

\* Handler::run reads a `subscribe` frame and calls Subscribe::apply:
\* let mut subscriptions = StreamMap::new()
HandlerSubscribe(s, chs) ==
    /\ sub[s].pc = "idle"
    /\ FramesRead < MaxFrames
    /\ sub' = [sub EXCEPT ![s] = [pc |-> "drain", channels |-> chs,
                                  subscriptions |-> <<>>, rx |-> {}, chan |-> "",
                                  todo |-> <<>>, frames |-> 1,
                                  last |-> Cmd("subscribe", "", "", chs)]]
    /\ UNCHANGED <<pub_sub, out, published, pubret, confirmed, owed>>

\* subscribe_to_channel: let mut rx = db.subscribe(channel_name.clone())
SubDbSubscribe(s) ==
    /\ sub[s].pc = "drain"
    /\ sub[s].channels # <<>>
    /\ LET r == DbSubscribe(pub_sub, Head(sub[s].channels))
       IN  /\ pub_sub' = r.pub_sub
           /\ sub' = [sub EXCEPT ![s].pc = "insert",
                                 ![s].channels = Tail(@),
                                 ![s].rx = {r.rx}]
    /\ UNCHANGED <<out, published, pubret, confirmed, owed>>

\* subscribe_to_channel: subscriptions.insert(channel_name.clone(), rx); the
\* stream that was stored for the channel, and its receiver, are dropped
SubInsert(s) ==
    /\ sub[s].pc = "insert"
    /\ \E rx \in sub[s].rx :
          /\ sub' = [sub EXCEPT ![s].pc = "confirm",
                                ![s].rx = {},
                                ![s].chan = rx.name,
                                ![s].subscriptions = StreamMapInsert(@, rx)]
          /\ pub_sub' = IF IndexOf(sub[s].subscriptions, rx.name) # 0
                        THEN DropReceiver(pub_sub, rx.name)
                        ELSE pub_sub
    /\ UNCHANGED <<out, published, pubret, confirmed, owed>>

\* subscribe_to_channel:
\* dst.write_frame(&make_subscribe_frame(channel_name, subscriptions.len()))
SubConfirm(s) ==
    /\ sub[s].pc = "confirm"
    /\ out' = [out EXCEPT ![s] =
                 Append(@, SubscribeFrame(sub[s].chan, Len(sub[s].subscriptions)))]
    /\ confirmed' = [confirmed EXCEPT ![s] = @ \cup {sub[s].chan}]
    /\ sub' = [sub EXCEPT ![s].pc = LoopPc(sub[s].channels, <<>>),
                          ![s].chan = ""]
    /\ UNCHANGED <<pub_sub, published, pubret, owed>>

\* Subscribe::apply, select!: Some((channel_name, msg)) = subscriptions.next()
\* => dst.write_frame(&make_message_frame(channel_name, msg))
SubMessage(s, i) ==
    /\ sub[s].pc = "select"
    /\ i \in 1..Len(sub[s].subscriptions)
    /\ LET rx == sub[s].subscriptions[i]
           tx == pub_sub[rx.name]
       IN  /\ RecvReady(tx, rx)
           /\ sub' = [sub EXCEPT ![s].subscriptions[i] = StreamNext(tx, rx).rx]
           /\ out' = [out EXCEPT ![s] =
                        Append(@, MessageFrame(rx.name, StreamNext(tx, rx).msg))]
    /\ UNCHANGED <<pub_sub, published, pubret, confirmed, owed>>

\* Subscribe::apply, select!: res = dst.read_frame(); handle_command:
\* Command::Subscribe(sub) => subscribe_to.extend(sub.channels.into_iter())
SubReadSubscribe(s, chs) ==
    /\ sub[s].pc = "select"
    /\ FramesRead < MaxFrames
    /\ sub' = [sub EXCEPT ![s].pc = "drain",
                          ![s].channels = @ \o chs,
                          ![s].frames = @ + 1,
                          ![s].last = Cmd("subscribe", "", "", chs)]
    /\ UNCHANGED <<pub_sub, out, published, pubret, confirmed, owed>>

\* handle_command: Command::Unsubscribe(unsubscribe); an empty list of
\* channels stands for subscriptions.keys()
SubReadUnsubscribe(s, chs) ==
    /\ sub[s].pc = "select"
    /\ FramesRead < MaxFrames
    /\ LET todo == IF chs = <<>> THEN StreamMapKeys(sub[s].subscriptions) ELSE chs
       IN  sub' = [sub EXCEPT ![s].pc = LoopPc(<<>>, todo),
                              ![s].todo = todo,
                              ![s].frames = @ + 1,
                              ![s].last = Cmd("unsubscribe", "", "", chs)]
    /\ UNCHANGED <<pub_sub, out, published, pubret, confirmed, owed>>

\* mutant of SubUnsubscribeOne: the confirmation is written, the stream of
\* the channel stays in the StreamMap
SubUnsubscribeOneKeeps(s) ==
    /\ sub[s].pc = "unsub"
    /\ LET c == Head(sub[s].todo)
       IN  /\ out' = [out EXCEPT ![s] =
                        Append(@, UnsubscribeFrame(c, Len(sub[s].subscriptions)))]
           /\ sub' = [sub EXCEPT ![s].todo = Tail(@),
                                 ![s].pc = LoopPc(<<>>, Tail(sub[s].todo))]
           /\ confirmed' = [confirmed EXCEPT ![s] = @ \ {c}]
           /\ owed' = [owed EXCEPT ![s] = {o \in @ : o[1] # c}]
    /\ UNCHANGED <<pub_sub, published, pubret>>

\* handle_command, for channel_name in unsubscribe.channels:
\* subscriptions.remove(&channel_name);
\* dst.write_frame(&make_unsubscribe_frame(channel_name, subscriptions.len()))
SubUnsubscribeOne(s) ==
    /\ sub[s].pc = "unsub"
    /\ LET c    == Head(sub[s].todo)
           subs == StreamMapRemove(sub[s].subscriptions, c)
       IN  /\ pub_sub' = IF IndexOf(sub[s].subscriptions, c) # 0
                         THEN DropReceiver(pub_sub, c)
                         ELSE pub_sub
           /\ out' = [out EXCEPT ![s] = Append(@, UnsubscribeFrame(c, Len(subs)))]
           /\ sub' = [sub EXCEPT ![s].subscriptions = subs,
                                 ![s].todo = Tail(@),
                                 ![s].pc = LoopPc(<<>>, Tail(sub[s].todo))]
           /\ confirmed' = [confirmed EXCEPT ![s] = @ \ {c}]
           /\ owed' = [owed EXCEPT ![s] = {o \in @ : o[1] # c}]
    /\ UNCHANGED <<published, pubret>>

\* Subscribe::apply returns: end of stream or an error of read_frame, the
\* shutdown signal, or an error of write_frame; subscriptions is dropped
SubReturn(s) ==
    /\ sub[s].pc \in {"select", "confirm", "unsub"}
    /\ pub_sub' = DropAll(pub_sub, sub[s].subscriptions)
    /\ sub' = [sub EXCEPT ![s] = [IdleSub EXCEPT !.pc = "closed",
                                                 !.frames = sub[s].frames]]
    /\ confirmed' = [confirmed EXCEPT ![s] = {}]
    /\ owed' = [owed EXCEPT ![s] = {}]
    /\ UNCHANGED <<out, published, pubret>>

\* Publish::apply on another connection: db.publish(&self.channel, self.message)
Publish(c, m) ==
    /\ published < MaxPublish
    /\ LET id == published + 1
           r  == DbPublish(pub_sub, c, [msg |-> m, id |-> id])
       IN  /\ pub_sub' = r.pub_sub
           /\ pubret' = [chan |-> c, n |-> r.n]
           /\ published' = id
           /\ owed' = [s \in Subscribers |->
                         IF c \in confirmed[s] THEN owed[s] \cup {<<c, id>>}
                                               ELSE owed[s]]
    /\ UNCHANGED <<sub, out, confirmed>>

PubSubStep ==
    \/ \E s \in Subscribers, chs \in SubscribeArgs : HandlerSubscribe(s, chs)
    \/ \E s \in Subscribers : SubDbSubscribe(s)
    \/ \E s \in Subscribers : SubInsert(s)
    \/ \E s \in Subscribers : SubConfirm(s)
    \/ \E s \in Subscribers : \E i \in 1..Len(sub[s].subscriptions) : SubMessage(s, i)
    \/ \E s \in Subscribers, chs \in SubscribeArgs : SubReadSubscribe(s, chs)
    \/ \E s \in Subscribers, chs \in UnsubscribeArgs : SubReadUnsubscribe(s, chs)
    \/ \E s \in Subscribers : SubUnsubscribeOne(s)
    \/ \E s \in Subscribers : SubReturn(s)
    \/ \E c \in Channels, m \in Payloads : Publish(c, m)

PubSubNext == PubSubStep /\ UNCHANGED <<storeVars, serverVars, connVars, codecVars, watchVars>>

PubSubSpec == Init /\ [][PubSubNext]_vars

\* ------------------------------------------------- publish/subscribe: claims

\* the number of `message` frames written to s for publish number id on c
MessageFrames(s, c, id) ==
    Cardinality({i \in 1..Len(out[s]) :
                   /\ out[s][i].type = "message"
                   /\ out[s][i].chan = c
                   /\ out[s][i].id = id})

\* the message of publish number id waits in a receiver that s holds on c
Pending(s, c, id) ==
    \E i \in 1..Len(sub[s].subscriptions) :
       /\ sub[s].subscriptions[i].name = c
       /\ \E j \in 1..Len(pub_sub[c].log) :
             /\ pub_sub[c].log[j].id = id
             /\ j >= sub[s].subscriptions[i].next
             /\ j >= Oldest(pub_sub[c])

\* the message of publish number id has left the ring of channel c: at some
\* publish the channel held Capacity pending messages
Overwritten(c, id) ==
    \E j \in 1..Len(pub_sub[c].log) :
       pub_sub[c].log[j].id = id /\ j < Oldest(pub_sub[c])

\* C5: a connection that has received the confirmation for channel c, stays
\* open and does not unsubscribe from c is sent exactly one `message` frame
\* for every later publish on c: the frame has been written once, or the
\* message still waits in the connection's receiver (unless the channel
\* overflowed); it is never written twice.
C5_DeliveredExactlyOnce ==
    \A s \in Subscribers : \A o \in owed[s] :
       /\ MessageFrames(s, o[1], o[2]) <= 1
       /\ \/ MessageFrames(s, o[1], o[2]) = 1
          \/ Pending(s, o[1], o[2])
          \/ Overwritten(o[1], o[2])

\* the receivers alive on channel c: those stored in a StreamMap and those
\* returned by db.subscribe and not stored yet
ReceiversAlive(c) ==
    LET Held(s) == Cardinality({i \in 1..Len(sub[s].subscriptions) :
                                  sub[s].subscriptions[i].name = c})
                   + Cardinality({rx \in sub[s].rx : rx.name = c})
        RECURSIVE Sum(_)
        Sum(S) == IF S = {} THEN 0
                  ELSE LET s == CHOOSE x \in S : TRUE IN Held(s) + Sum(S \ {s})
    IN  Sum(Subscribers)

\* C6: a call of Db::publish on channel c returns the number of receivers
\* alive on c; it returns 0 when c was never subscribed or when every receiver
\* of c has been dropped, and it never creates the channel.
C6_PublishReturnsReceivers ==
    [][published' # published =>
         LET c == pubret'.chan
         IN  /\ pubret'.n = ReceiversAlive(c)
             /\ (c \notin DOMAIN pub_sub \/ ReceiversAlive(c) = 0) => pubret'.n = 0
             /\ DOMAIN pub_sub' = DOMAIN pub_sub]_vars

\* a publish returned 0 on a channel that exists and whose only subscriber
\* has gone, after a publish that was delivered
C6_Witness ==
    /\ published >= 2
    /\ pubret.n = 0
    /\ pubret.chan \in DOMAIN pub_sub
    /\ Len(pub_sub[pubret.chan].log) = 1
    /\ \E s \in Subscribers :
          sub[s].pc = "closed" /\ \E i \in 1..Len(out[s]) : out[s][i].type = "message"

\* ===================================================================
\* Part 4, frames and commands (src/src/frame.rs, src/src/parse.rs,
\* src/src/cmd/mod.rs): the values of enum Frame, the cursor Parse over the
\* parts of an Array frame and Command::from_frame.
\*
\* A Result<T, E> of the source is a record with the field ok; a String or
\* Bytes value is a TLA+ string.
\* ===================================================================

\* enum Frame: t is the variant, s the String or Bytes of a Simple, Error or
\* Bulk, n the u64 of an Integer and a the Vec<Frame> of an Array
Simple(s) == [t |-> "Simple", s |-> s, n |-> 0, a |-> <<>>]

ErrorFrame(s) == [t |-> "Error", s |-> s, n |-> 0, a |-> <<>>]

Integer(n) == [t |-> "Integer", s |-> "", n |-> n, a |-> <<>>]

Bulk(b) == [t |-> "Bulk", s |-> b, n |-> 0, a |-> <<>>]

Null == [t |-> "Null", s |-> "", n |-> 0, a |-> <<>>]

Array(a) == [t |-> "Array", s |-> "", n |-> 0, a |-> a]

\* Parse::new: Frame::Array(array) => Ok(Parse { parts }), else Err
ParseNew(frame) ==
    IF frame.t = "Array" THEN [ok |-> TRUE, parts |-> frame.a]
                         ELSE [ok |-> FALSE, parts |-> <<>>]

\* Parse::next_string: Err(EndOfStream) when no part is left (eos), Ok for a
\* Simple or a Bulk (the Bulk values of the model are valid UTF-8), Err else
NextString(parts) ==
    IF parts = <<>>
    THEN [ok |-> FALSE, eos |-> TRUE, val |-> "", rest |-> parts]
    ELSE IF Head(parts).t \in {"Simple", "Bulk"}
    THEN [ok |-> TRUE, eos |-> FALSE, val |-> Head(parts).s, rest |-> Tail(parts)]
    ELSE [ok |-> FALSE, eos |-> FALSE, val |-> "", rest |-> Tail(parts)]

\* Parse::next_bytes: as next_string, without the UTF-8 check
NextBytes(parts) == NextString(parts)

\* Parse::finish: Ok iff no part is left
Finish(parts) == parts = <<>>

\* str::to_lowercase on the command names the clients of the model send
ToLowercase(s) ==
    CASE s = "GET" -> "get"
      [] s = "Set" -> "set"
      [] OTHER -> s

ParseFailed == [ok |-> FALSE, cmd |-> NoCmd, rest |-> <<>>]

\* Get::parse_frame: let key = parse.next_string()?
GetParseFrame(parts) ==
    LET k == NextString(parts)
    IN  IF k.ok THEN [ok |-> TRUE, cmd |-> Cmd("get", k.val, "", <<>>), rest |-> k.rest]
        ELSE ParseFailed

\* Set::parse_frame: the key and the value, two positional arguments
SetParseFrame(parts) ==
    LET k == NextString(parts)
        v == NextBytes(k.rest)
    IN  IF k.ok /\ v.ok
        THEN [ok |-> TRUE, cmd |-> Cmd("set", k.val, v.val, <<>>), rest |-> v.rest]
        ELSE ParseFailed

\* Publish::parse_frames: parse.next_string()?, parse.next_bytes()?
PublishParseFrames(parts) ==
    LET c == NextString(parts)
        m == NextBytes(c.rest)
    IN  IF c.ok /\ m.ok
        THEN [ok |-> TRUE, cmd |-> Cmd("publish", "", m.val, <<c.val>>), rest |-> m.rest]
        ELSE ParseFailed

\* the loop of Subscribe::parse_frames and Unsubscribe::parse_frames:
\* Ok(s) => channels.push(s); Err(EndOfStream) => break; Err(err) => return Err
RECURSIVE ChannelNames(_, _)
ChannelNames(parts, acc) ==
    LET s == NextString(parts)
    IN  IF s.ok THEN ChannelNames(s.rest, Append(acc, s.val))
        ELSE IF s.eos THEN [ok |-> TRUE, channels |-> acc]
        ELSE [ok |-> FALSE, channels |-> <<>>]

\* Subscribe::parse_frames: vec![parse.next_string()?], then the loop
SubscribeParseFrames(parts) ==
    LET first == NextString(parts)
        more  == ChannelNames(first.rest, <<first.val>>)
    IN  IF first.ok /\ more.ok
        THEN [ok |-> TRUE, cmd |-> Cmd("subscribe", "", "", more.channels), rest |-> <<>>]
        ELSE ParseFailed

\* Unsubscribe::parse_frames: vec![], then the loop
UnsubscribeParseFrames(parts) ==
    LET more == ChannelNames(parts, <<>>)
    IN  IF more.ok
        THEN [ok |-> TRUE, cmd |-> Cmd("unsubscribe", "", "", more.channels), rest |-> <<>>]
        ELSE ParseFailed

\* Command::from_frame
FromFrame(frame) ==
    LET parse == ParseNew(frame)
        name  == NextString(parse.parts)
        which == ToLowercase(name.val)
        r     == CASE which = "get"         -> GetParseFrame(name.rest)
                   [] which = "set"         -> SetParseFrame(name.rest)
                   [] which = "publish"     -> PublishParseFrames(name.rest)
                   [] which = "subscribe"   -> SubscribeParseFrames(name.rest)
                   [] which = "unsubscribe" -> UnsubscribeParseFrames(name.rest)
                   [] OTHER                 -> ParseFailed
    IN  IF ~parse.ok \/ ~name.ok THEN [ok |-> FALSE, cmd |-> NoCmd]
        ELSE IF which \notin {"get", "set", "publish", "subscribe", "unsubscribe"}
        THEN [ok |-> TRUE, cmd |-> Cmd("unknown", which, "", <<>>)]
        ELSE IF r.ok /\ Finish(r.rest) THEN [ok |-> TRUE, cmd |-> r.cmd]
        ELSE [ok |-> FALSE, cmd |-> NoCmd]

\* Command::get_name
GetName(cmd) ==
    CASE cmd.kind = "unsubscribe" -> "unsubcribe"
      [] cmd.kind = "unknown"     -> cmd.key
      [] OTHER                    -> cmd.kind

\* ===================================================================
\* Part 4b, the wire codec (src/src/connection.rs write_frame, write_value,
\* write_decimal; src/src/frame.rs check, parse and the cursor helpers).
\* A buffer of bytes is a string; the cursor over it is [buf, pos] with pos
\* counted from 0 as in std::io::Cursor.
\* ===================================================================

\* the largest number the frames of the model carry as an Integer value, a
\* Bulk length or an Array length
MaxDecimal == 100

\* write_decimal: `let mut buf = [0u8, 20];` is an array of the two bytes 0
\* and 20
DecimalBufLen == 2

Digits == <<"0", "1", "2", "3", "4", "5", "6", "7", "8", "9">>

\* the formatting `{}` of a u64: its decimal digits, most significant first
RECURSIVE ToDecimal(_)
ToDecimal(val) ==
    IF val < 10 THEN Digits[val + 1]
    ELSE ToDecimal(val \div 10) \o Digits[(val % 10) + 1]

IsDigit(b) == \E d \in 1..10 : Digits[d] = b

DigitValue(b) == (CHOOSE d \in 1..10 : Digits[d] = b) - 1

\* the number of leading decimal digits of a line
RECURSIVE LeadingDigits(_)
LeadingDigits(line) ==
    IF Len(line) = 0 \/ ~IsDigit(Head(line)) THEN 0
    ELSE 1 + LeadingDigits(Tail(line))

RECURSIVE DecimalValue(_)
DecimalValue(digits) ==
    IF Len(digits) = 0 THEN 0
    ELSE 10 * DecimalValue(SubSeq(digits, 1, Len(digits) - 1))
         + DigitValue(SubSeq(digits, Len(digits), Len(digits)))

\* atoi::<u64>: the value of the leading digits, None when there is none
Atoi(line) ==
    LET k == LeadingDigits(line)
    IN  IF k = 0 THEN {} ELSE {DecimalValue(SubSeq(line, 1, k))}

\* b repeated n times
RECURSIVE Repeat(_, _)
Repeat(b, n) == IF n = 0 THEN "" ELSE b \o Repeat(b, n - 1)

\* ------------------------------------------------------- writing a frame

\* the result of a write: outcome is "ok", "err" (an io::Error) or "panic";
\* bytes is what was handed to the stream up to there
Wrote(outcome, bytes) == [outcome |-> outcome, bytes |-> bytes]

\* Connection::write_decimal: write! into the cursor over buf fails with
\* WriteZero once buf is full, and nothing of the number reaches the stream
WriteDecimal(val) ==
    IF Len(ToDecimal(val)) > DecimalBufLen THEN Wrote("err", "")
    ELSE Wrote("ok", ToDecimal(val) \o "\r\n")

\* a write followed by another one (the `?` between the awaits)
Then(first, second) ==
    IF first.outcome # "ok" THEN first
    ELSE Wrote(second.outcome, first.bytes \o second.bytes)

\* Connection::write_value
WriteValue(frame) ==
    CASE frame.t = "Simple" -> Wrote("ok", "+" \o frame.s \o "\r\n")
      [] frame.t = "Error" -> Wrote("ok", "-" \o frame.s \o "\r\n")
      [] frame.t = "Integer" -> Then(Wrote("ok", ":"), WriteDecimal(frame.n))
      [] frame.t = "Null" -> Wrote("ok", "$-1\r\n")
      [] frame.t = "Bulk" ->
            Then(Then(Wrote("ok", "$"), WriteDecimal(Len(frame.s))),
                 Wrote("ok", frame.s \o "\r\n"))
      [] frame.t = "Array" -> Wrote("panic", "")

\* the loop `for entry in &**val` of write_frame from entry i on
RECURSIVE WriteEntries(_, _)
WriteEntries(val, i) ==
    IF i > Len(val) THEN Wrote("ok", "")
    ELSE Then(WriteValue(val[i]), WriteEntries(val, i + 1))

\* Connection::write_frame
WriteFrame(frame) ==
    IF frame.t = "Array"
    THEN Then(Then(Wrote("ok", "*"), WriteDecimal(Len(frame.a))),
              WriteEntries(frame.a, 1))
    ELSE WriteValue(frame)

\* ------------------------------------------------------- reading a frame

Cursor(buf, pos) == [buf |-> buf, pos |-> pos]

\* Buf::remaining of the cursor
Remaining(src) == Len(src.buf) - src.pos

\* the result of a cursor helper: err is "" (Ok), "Incomplete" or "Other";
\* pos is the position of the cursor afterwards
Got(err, pos, byte, line, val) ==
    [err |-> err, pos |-> pos, byte |-> byte, line |-> line, val |-> val]

\* peek_u8
PeekU8(src) ==
    IF Remaining(src) <= 0 THEN Got("Incomplete", src.pos, "", "", 0)
    ELSE Got("", src.pos, SubSeq(src.buf, src.pos + 1, src.pos + 1), "", 0)

\* get_u8
GetU8(src) ==
    IF Remaining(src) <= 0 THEN Got("Incomplete", src.pos, "", "", 0)
    ELSE Got("", src.pos + 1, SubSeq(src.buf, src.pos + 1, src.pos + 1), "", 0)

\* skip
Skip(src, n) ==
    IF Remaining(src) < n THEN Got("Incomplete", src.pos, "", "", 0)
    ELSE Got("", src.pos + n, "", "", 0)

\* get_line: the first i in start..end with \r at i and \n at i + 1, where
\* end is the index of the last byte; the callers read a byte first, so the
\* buffer is never empty here
GetLine(src) ==
    LET start == src.pos
        end == Len(src.buf) - 1
        found == {i \in start..(end - 1) : SubSeq(src.buf, i + 1, i + 2) = "\r\n"}
    IN  IF found = {} THEN Got("Incomplete", src.pos, "", "", 0)
        ELSE LET i == CHOOSE j \in found : \A k \in found : j <= k
             IN  Got("", i + 2, "", SubSeq(src.buf, start + 1, i), 0)

\* get_decimal
GetDecimal(src) ==
    LET line == GetLine(src)
    IN  IF line.err # "" THEN line
        ELSE IF Atoi(line.line) = {} THEN Got("Other", line.pos, "", "", 0)
        ELSE Got("", line.pos, "", line.line, CHOOSE v \in Atoi(line.line) : TRUE)

\* the result of Frame::check: err and the position of the cursor
Checked(err, pos) == [err |-> err, pos |-> pos]

RECURSIVE Check(_), CheckEach(_, _)
\* Frame::check
Check(src) ==
    LET b == GetU8(src)
        cur == Cursor(src.buf, b.pos)
    IN  IF b.err # "" THEN Checked(b.err, b.pos)
        ELSE CASE b.byte \in {"+", "-"} ->
                    LET line == GetLine(cur) IN Checked(line.err, line.pos)
               [] b.byte = ":" ->
                    LET d == GetDecimal(cur) IN Checked(d.err, d.pos)
               [] b.byte = "$" ->
                    LET p == PeekU8(cur)
                        d == GetDecimal(cur)
                    IN  IF p.err # "" THEN Checked(p.err, p.pos)
                        ELSE IF p.byte = "-"
                        THEN LET s == Skip(cur, 4) IN Checked(s.err, s.pos)
                        ELSE IF d.err # "" THEN Checked(d.err, d.pos)
                        ELSE LET s == Skip(Cursor(src.buf, d.pos), d.val + 2)
                             IN  Checked(s.err, s.pos)
               [] b.byte = "*" ->
                    LET d == GetDecimal(cur)
                    IN  IF d.err # "" THEN Checked(d.err, d.pos)
                        ELSE CheckEach(Cursor(src.buf, d.pos), d.val)
               [] OTHER -> Checked("Other", b.pos)

\* the loop `for _ in 0..len { Frame::check(src)?; }`
CheckEach(src, len) ==
    IF len = 0 THEN Checked("", src.pos)
    ELSE LET one == Check(src)
         IN  IF one.err # "" THEN one
             ELSE CheckEach(Cursor(src.buf, one.pos), len - 1)

\* String::from_utf8: every byte of the model is ASCII, so the line is the
\* String
FromUtf8(line) == line

\* the result of Frame::parse: err is "" (Ok), "Incomplete", "Other" or
\* "panic" (unimplemented!), frame the frame of an Ok
Parsed(err, pos, frame) == [err |-> err, pos |-> pos, frame |-> frame]

RECURSIVE Parse(_), ParseEach(_, _, _)
\* Frame::parse
Parse(src) ==
    LET b == GetU8(src)
        cur == Cursor(src.buf, b.pos)
        fail(r) == Parsed(r.err, r.pos, Null)
    IN  IF b.err # "" THEN fail(b)
        ELSE CASE b.byte = "+" ->
                    LET line == GetLine(cur)
                    IN  IF line.err # "" THEN fail(line)
                        ELSE Parsed("", line.pos, Simple(FromUtf8(line.line)))
               [] b.byte = "-" ->
                    LET line == GetLine(cur)
                    IN  IF line.err # "" THEN fail(line)
                        ELSE Parsed("", line.pos, ErrorFrame(FromUtf8(line.line)))
               [] b.byte = ":" ->
                    LET d == GetDecimal(cur)
                    IN  IF d.err # "" THEN fail(d)
                        ELSE Parsed("", d.pos, Integer(d.val))
               [] b.byte = "$" ->
                    LET p == PeekU8(cur)
                        line == GetLine(cur)
                        d == GetDecimal(cur)
                        rest == Cursor(src.buf, d.pos)
                    IN  IF p.err # "" THEN fail(p)
                        ELSE IF p.byte = "-"
                        THEN IF line.err # "" THEN fail(line)
                             ELSE IF line.line # "-1"
                             THEN Parsed("Other", line.pos, Null)
                             ELSE Parsed("", line.pos, Null)
                        ELSE IF d.err # "" THEN fail(d)
                        ELSE IF Remaining(rest) < d.val + 2
                        THEN Parsed("Incomplete", d.pos, Null)
                        ELSE Parsed("", d.pos + d.val + 2,
                                    Bulk(SubSeq(src.buf, d.pos + 1, d.pos + d.val)))
               [] b.byte = "*" ->
                    LET d == GetDecimal(cur)
                    IN  IF d.err # "" THEN fail(d)
                        ELSE ParseEach(Cursor(src.buf, d.pos), d.val, <<>>)
               [] OTHER -> Parsed("panic", b.pos, Null)

\* the loop `for _ in 0..num_elem { out.push(Frame::parse(src)?); }` and
\* the Ok(Frame::Array(out)) after it
ParseEach(src, num_elem, vec) ==
    IF num_elem = 0 THEN Parsed("", src.pos, Array(vec))
    ELSE LET one == Parse(src)
         IN  IF one.err # "" THEN one
             ELSE ParseEach(Cursor(src.buf, one.pos), num_elem - 1,
                            Append(vec, one.frame))

\* ===================================================================
\* Part 5, one connection: Handler::run, Command::apply and the apply of
\* each command (src/src/server.rs, src/src/cmd/mod.rs, src/src/cmd/get.rs,
\* src/src/cmd/publish.rs).  The subscribe loop is Part 3; here it is one
\* state that Subscribe::apply leaves by returning.
\* ===================================================================

\* the frames the client of the model sends
InputFrames ==
    { Array(<<Bulk("get"), Bulk("foo")>>),
      Array(<<Bulk("GET"), Bulk("foo")>>),
      Array(<<Bulk("set"), Bulk("foo"), Bulk("v1")>>),
      Array(<<Bulk("set"), Bulk("foo"), Bulk(Repeat("x", MaxDecimal))>>),
      Array(<<Bulk("publish"), Bulk("a"), Bulk("hello")>>),
      Array(<<Bulk("ping")>>),
      Array(<<Bulk("subscribe"), Bulk("a")>>),
      Array(<<Bulk("unsubscribe"), Bulk("a")>>),
      Array(<<Bulk("unsubscribe")>>),
      Simple("get"),
      Array(<<>>),
      Array(<<Integer(1), Bulk("foo")>>),
      Array(<<Bulk("get")>>),
      Array(<<Bulk("get"), Bulk("foo"), Bulk("bar")>>),
      Array(<<Bulk("publish"), Bulk("a")>>) }

\* the commands answered with one frame by their apply
Answered == {"get", "set", "publish", "unknown"}

\* Unknown::apply: an Error frame naming the command
UnknownResponse(name) == ErrorFrame("ERR unknown command '" \o name \o "'")

\* mutant of UnsubscribeArm: a top-level `unsubscribe` is answered with an
\* Error frame and the handler goes on
UnsubscribeArmAnswers(r) ==
    [r EXCEPT !.resp = {ErrorFrame("ERR unsubscribe is unsupported in this context")}]

\* Command::apply:
\* Command::Unsubscribe(_) => Err("`Unsubscribe` is unsupported in this context".into())
UnsubscribeArm(r) == [r EXCEPT !.err = TRUE]

\* Command::apply up to the write of the response: the store operation of the
\* command and the frame to write.  Get::apply: Bulk(value) or Null;
\* Set::apply: db.set(key, value, None), then Simple("OK"); Publish::apply:
\* Integer(db.publish(..)); Unknown::apply: an Error frame;
\* Command::Unsubscribe(_) => Err(..); Subscribe::apply writes no response here
CommandApply(cmd) ==
    LET same == [err |-> FALSE, resp |-> {},
                 entries |-> entries, expirations |-> expirations,
                 next_id |-> next_id, notify |-> FALSE,
                 pub_sub |-> pub_sub, published |-> published]
    IN  CASE cmd.kind = "get" ->
               [same EXCEPT !.resp = IF DbGet(entries, cmd.key) = {} THEN {Null}
                                     ELSE {Bulk(v) : v \in DbGet(entries, cmd.key)}]
          [] cmd.kind = "set" ->
               LET r == DbSetLocked(entries, expirations, next_id,
                                    cmd.key, cmd.value, {}, now)
               IN  [same EXCEPT !.resp = {Simple("OK")},
                                !.entries = r.entries,
                                !.expirations = r.expirations,
                                !.next_id = r.next_id,
                                !.notify = r.notify]
          [] cmd.kind = "publish" ->
               LET r == DbPublish(pub_sub, cmd.channels[1],
                                  [msg |-> cmd.value, id |-> published + 1])
               IN  [same EXCEPT !.resp = {Integer(r.n)},
                                !.pub_sub = r.pub_sub,
                                !.published = published + 1]
          [] cmd.kind = "unknown" ->
               [same EXCEPT !.resp = {UnknownResponse(cmd.key)}]
          [] cmd.kind = "unsubscribe" -> UnsubscribeArm(same)
          [] OTHER -> same

\* Handler::run returns: cause is the reason (eof, shutdown: Ok; the others:
\* Err), and the connection is dropped with the Handler
ConnExit(cause) ==
    conn' = [conn EXCEPT !.pc = "done", !.cmd = {}, !.resp = {}, !.exit = cause]

\* Handler::run: the select! over read_frame and shutdown.recv() is the only
\* place of the loop where the signal is awaited
ShutdownArm(pc) == pc = "select"

\* server::run: drop(notify_shutdown)
ConnSignal ==
    /\ ~signalled
    /\ signalled' = TRUE
    /\ conn' = [conn EXCEPT !.mid = @ \/ conn.pc \in {"apply", "write"}]
    /\ UNCHANGED <<sent, nread, storeVars, pubsubVars>>

\* Handler::run: while !self.shutdown.is_shutdown()
ConnLoop ==
    /\ conn.pc = "loop"
    /\ IF conn.shutdown THEN ConnExit("shutdown")
                        ELSE conn' = [conn EXCEPT !.pc = "select"]
    /\ UNCHANGED <<sent, signalled, nread, storeVars, pubsubVars>>

\* Handler::run: read_frame returns Some(frame); Command::from_frame(frame)?
ConnReadFrame(frame) ==
    /\ conn.pc = "select"
    /\ nread < MaxRead
    /\ nread' = nread + 1
    /\ IF FromFrame(frame).ok
       THEN conn' = [conn EXCEPT
                        !.pc = "apply", !.cmd = {FromFrame(frame).cmd},
                        !.asked = IF FromFrame(frame).cmd.kind \in Answered
                                  THEN Append(@, FromFrame(frame).cmd.kind)
                                  ELSE @]
       ELSE ConnExit("protocol")
    /\ UNCHANGED <<sent, signalled, storeVars, pubsubVars>>

\* Handler::run: read_frame returns Err: Frame::check found the bytes
\* malformed (parse_frame: Err(e) => Err(e.into()))
ConnReadMalformed ==
    /\ conn.pc = "select"
    /\ nread < MaxRead
    /\ nread' = nread + 1
    /\ ConnExit("protocol")
    /\ UNCHANGED <<sent, signalled, storeVars, pubsubVars>>

\* Handler::run: read_frame returns Ok(None): None => return Ok(())
ConnReadEof ==
    /\ conn.pc = "select"
    /\ ConnExit("eof")
    /\ UNCHANGED <<sent, signalled, nread, storeVars, pubsubVars>>

\* Handler::run: _ = self.shutdown.recv() => return Ok(())
ConnShutdownRecv ==
    /\ ShutdownArm(conn.pc)
    /\ signalled
    /\ ConnExit("shutdown")
    /\ UNCHANGED <<sent, signalled, nread, storeVars, pubsubVars>>

\* Handler::run: cmd.apply(&self.db, &mut self.connection, &mut self.shutdown)
\* up to the write of the response
ConnApply ==
    /\ conn.pc = "apply"
    /\ \E cmd \in conn.cmd :
          LET r == CommandApply(cmd)
          IN  /\ IF r.err THEN ConnExit("unsubscribe")
                 ELSE IF cmd.kind = "subscribe"
                 THEN conn' = [conn EXCEPT !.pc = "subscribe", !.cmd = {}]
                 ELSE conn' = [conn EXCEPT !.pc = "write", !.resp = r.resp]
              /\ entries' = r.entries
              /\ expirations' = r.expirations
              /\ next_id' = r.next_id
              /\ background_task' = (background_task \/ r.notify)
              /\ pub_sub' = r.pub_sub
              /\ published' = r.published
    /\ UNCHANGED <<sent, signalled, nread, shutdown, now, reaper, cli, got,
                   lastSet, purgedAfter, sub, out, pubret, confirmed, owed>>

\* dst.write_frame(&response).await? returns Ok: the frame was written and
\* flushed
ConnWrite ==
    /\ conn.pc = "write"
    /\ \E f \in conn.resp :
          /\ WriteFrame(f).outcome = "ok"
          /\ sent' = Append(sent, f)
    /\ conn' = [conn EXCEPT !.pc = "loop", !.cmd = {}, !.resp = {}]
    /\ UNCHANGED <<signalled, nread, storeVars, pubsubVars>>

\* dst.write_frame(&response).await? returns the Err of write_decimal: the
\* frame is not flushed and run returns the error
ConnWriteFailed ==
    /\ conn.pc = "write"
    /\ \E f \in conn.resp : WriteFrame(f).outcome # "ok"
    /\ ConnExit("write")
    /\ UNCHANGED <<sent, signalled, nread, storeVars, pubsubVars>>

\* dst.write_frame(&response).await? returns Err: the stream failed (the
\* client is gone)
ConnWriteErr ==
    /\ conn.pc = "write"
    /\ ConnExit("io")
    /\ UNCHANGED <<sent, signalled, nread, storeVars, pubsubVars>>

\* Subscribe::apply returns: Ok(()) at the end of the stream, Ok(()) after
\* shutdown.recv() (which sets the flag of the Shutdown), or Err
ConnSubscribeReturn(how) ==
    /\ conn.pc = "subscribe"
    /\ CASE how = "eof"      -> conn' = [conn EXCEPT !.pc = "loop"]
         [] how = "shutdown" -> signalled /\ conn' = [conn EXCEPT !.pc = "loop",
                                                                  !.shutdown = TRUE]
         [] OTHER            -> ConnExit("io")
    /\ UNCHANGED <<sent, signalled, nread, storeVars, pubsubVars>>

ConnStep ==
    \/ ConnSignal
    \/ ConnLoop
    \/ \E frame \in InputFrames : ConnReadFrame(frame)
    \/ ConnReadMalformed
    \/ ConnReadEof
    \/ ConnShutdownRecv
    \/ ConnApply
    \/ ConnWrite
    \/ ConnWriteFailed
    \/ ConnWriteErr
    \/ \E how \in {"eof", "shutdown", "io"} : ConnSubscribeReturn(how)

ConnNext == ConnStep /\ UNCHANGED <<serverVars, codecVars, watchVars>>

ConnSpec == Init /\ [][ConnNext]_vars

\* ---------------------------------------------------- one connection: claims

\* C11: a handler exits on shutdown only between frames.  Once a get, set,
\* publish or unknown command has been read, the next steps of the handler
\* are its store operation and the write of its whole response, unless the
\* stream to the client fails; neither the shutdown signal nor anything
\* else ends the handler before the response is written.
C11_ShutdownBetweenFrames ==
    [][\A cmd \in conn.cmd :
          (cmd.kind \in Answered /\ conn'.pc # conn.pc) =>
             \/ conn.pc = "apply" /\ conn'.pc = "write" /\ conn'.resp # {}
             \/ /\ conn.pc = "write"
                /\ conn'.pc = "loop"
                /\ \E f \in conn.resp : sent' = Append(sent, f)
             \/ conn.pc = "write" /\ conn'.exit = "io"]_vars

\* C12: a frame that violates the protocol (malformed bytes, a top-level
\* frame that is not an Array, a known command with missing or extra
\* arguments) is answered with an Error frame before the connection is closed.
C12_ViolationAnswered ==
    [][(conn.exit = "" /\ conn'.exit = "protocol") =>
          /\ Len(sent') = Len(sent) + 1
          /\ sent'[Len(sent')].t = "Error"]_vars

\* C13: a top-level `unsubscribe` writes no frame, changes neither the store
\* nor a subscription, and ends the handler with the error of Command::apply.
C13_TopLevelUnsubscribe ==
    [][\A cmd \in conn.cmd :
          (conn.pc = "apply" /\ cmd.kind = "unsubscribe" /\ conn'.pc # conn.pc) =>
             /\ conn'.pc = "done"
             /\ conn'.exit = "unsubscribe"
             /\ sent' = sent
             /\ UNCHANGED <<entries, expirations, pub_sub, sub, confirmed>>]_vars

\* after a set that was answered, an `unsubscribe` ended the handler
C13_Witness ==
    /\ conn.exit = "unsubscribe"
    /\ DOMAIN entries # {}
    /\ Len(sent) = 1

\* ===================================================================
\* The store whose Db handles are dropped (src/src/db.rs, Drop for Db): the
\* handles of Clients are dropped by different tasks, so the steps of two
\* drops interleave.
\* ===================================================================

DropStep ==
    \/ Tick
    \/ \E c \in Clients, key \in Keys, value \in Values, expire \in Expires :
          Set(c, key, value, expire)
    \/ \E c \in Clients : SetNotify(c)
    \/ \E c \in Clients : DropCheck(c)
    \/ \E c \in Clients : DropShutdown(c)
    \/ \E c \in Clients : DropNotify(c)
    \/ \E c \in Clients : DropArc(c)
    \/ ReaperCheck
    \/ ReaperPurge
    \/ ReaperNotified
    \/ ReaperTimeout

DropNext == DropStep /\ UNCHANGED <<serverVars, pubsubVars, connVars, codecVars, watchVars>>

DropSpec == Init /\ [][DropNext]_vars

\* C14: when the last Db handle has been dropped the shutdown flag of the
\* store is set, whatever the interleaving of the drops, so that the reaper
\* leaves its loop.
C14_LastDropShutsDown ==
    (\A c \in Clients : cli[c] = "dropped") => shutdown

\* ===================================================================
\* Part 6, the codec on one frame: write_frame, then Frame::check on a
\* prefix of what it wrote or Frame::parse on the whole of it.
\* ===================================================================

\* the text of the Simple and Error frames: a status, the empty text and a
\* text with a line break in it (a String holds any characters)
Texts == {"OK", "", "a\r\nb"}

\* the frames handed to write_frame: every variant of enum Frame, numbers
\* of one, two and three digits, the frames the commands exchange and
\* arrays within arrays
CodecFrames ==
    {Simple(t) : t \in Texts} \cup {ErrorFrame(t) : t \in Texts}
    \cup {Integer(n) : n \in {0, 9, 10, 99, MaxDecimal}}
    \cup {Bulk(b) : b \in {"", "foo", "a\r\nb", Repeat("x", MaxDecimal)}}
    \cup {Null,
          Array(<<>>),
          Array(<<Bulk("get"), Bulk("foo")>>),
          Array(<<Bulk("subscribe"), Bulk("a"), Integer(1)>>),
          Array(<<Null, Simple("OK")>>),
          Array([i \in 1..MaxDecimal |-> Null]),
          Array(<<Array(<<>>)>>),
          Array(<<Bulk("a"), Array(<<Integer(1)>>)>>)}

\* write_frame(&frame)
CodecWrite(frame) ==
    /\ codec.pc = "idle"
    /\ codec' = [codec EXCEPT !.pc = "written", !.frame = {frame},
                              !.wire = {WriteFrame(frame)}]

\* Frame::check on a cursor over the first n bytes write_frame emitted
CodecCheck(n) ==
    /\ codec.pc = "written"
    /\ \E w \in codec.wire :
          /\ w.outcome = "ok"
          /\ n <= Len(w.bytes)
          /\ codec' = [codec EXCEPT
                          !.pc = "checked", !.cut = n,
                          !.checked = {Check(Cursor(SubSeq(w.bytes, 1, n), 0))}]

\* Frame::parse on a cursor over the bytes write_frame emitted
CodecParse ==
    /\ codec.pc = "written"
    /\ \E w \in codec.wire :
          /\ w.outcome = "ok"
          /\ codec' = [codec EXCEPT !.pc = "parsed",
                                    !.parsed = {Parse(Cursor(w.bytes, 0))}]

\* the longest encoding of the frames of the model
MaxWire == (5 * MaxDecimal) + 16

CodecStep ==
    \/ \E frame \in CodecFrames : CodecWrite(frame)
    \/ \E n \in 0..MaxWire : CodecCheck(n)
    \/ CodecParse

CodecNext ==
    CodecStep /\ UNCHANGED <<storeVars, serverVars, pubsubVars, connVars, rd, watchVars>>

CodecSpec == Init /\ [][CodecNext]_vars

\* C15: write_frame succeeds on every Integer, every Bulk and every Array of
\* the model and emits all the decimal digits of the value, of the byte
\* length or of the element count, followed by \r\n.
C15_DecimalWritten ==
    \A f \in codec.frame, w \in codec.wire :
       /\ f.t = "Integer" => w = Wrote("ok", ":" \o ToDecimal(f.n) \o "\r\n")
       /\ f.t = "Bulk" =>
             w = Wrote("ok", "$" \o ToDecimal(Len(f.s)) \o "\r\n" \o f.s \o "\r\n")
       /\ (f.t = "Array" /\ \A i \in 1..Len(f.a) : f.a[i].t = "Null") =>
             w = Wrote("ok", "*" \o ToDecimal(Len(f.a)) \o "\r\n"
                             \o Repeat("$-1\r\n", Len(f.a)))

\* C16: write_frame emits an encoding of every frame, and Frame::parse on
\* that encoding returns a frame equal to the one written.
C16_RoundTrip ==
    /\ \A w \in codec.wire : w.outcome = "ok"
    /\ \A f \in codec.frame, p \in codec.parsed : p.err = "" /\ p.frame = f

\* C17: Frame::check on a strict prefix of the encoding of a frame returns
\* Incomplete, and on the whole encoding Ok with the cursor at its end.
C17_CheckPrefix ==
    \A w \in codec.wire, c \in codec.checked :
       IF codec.cut < Len(w.bytes) THEN c.err = "Incomplete"
       ELSE c.err = "" /\ c.pos = Len(w.bytes)

\* ===================================================================
\* Part 7, the subscribe loop of one connection fed with frames
\* (src/src/cmd/subscribe.rs): the frames of the client go through
\* Command::from_frame and every frame the loop writes goes through
\* write_frame.  The stream to the client accepts what is written.
\* ===================================================================

\* a channel name MaxDecimal bytes long
LongName == Repeat("c", MaxDecimal)

ViewChannels == {"a", "b", LongName}

\* the lists of one or two channel names, repetitions included
ViewArgs ==
    {<<c>> : c \in ViewChannels} \cup {<<c, d>> : c \in ViewChannels, d \in ViewChannels}

\* the Array of Bulk frames a client sends for a command (as into_frame)
CommandFrame(name, args) ==
    Array(<<Bulk(name)>> \o [i \in 1..Len(args) |-> Bulk(args[i])])

\* the frames the client sends inside the loop; the last one is a get
\* without its key
ViewFrames ==
    {CommandFrame("subscribe", chs) : chs \in ViewArgs}
    \cup {CommandFrame("unsubscribe", chs) : chs \in {<<>>} \cup ViewArgs}
    \cup {CommandFrame("get", <<"foo">>),
          CommandFrame("set", <<"foo", "v1">>),
          CommandFrame("publish", <<"a", "hello">>),
          CommandFrame("ping", <<>>),
          CommandFrame("get", <<>>)}

\* the connections of this part
ViewSubscribers == {"s1"}

\* make_subscribe_frame
MakeSubscribeFrame(channel_name, num_subs) ==
    Array(<<Bulk("subscribe"), Bulk(channel_name), Integer(num_subs)>>)

\* make_unsubscribe_frame
MakeUnsubscribeFrame(channel_name, num_subs) ==
    Array(<<Bulk("unsubscribe"), Bulk(channel_name), Integer(num_subs)>>)

\* the Error frame of Unknown::apply as an element of out
ErrorReply(name) ==
    [type |-> "error", chan |-> "", msg |-> UnknownResponse(name).s,
     num |-> 0, id |-> 0]

\* Handler::run reads a `subscribe` frame: Command::from_frame, then
\* Subscribe::apply
ViewEnter(s, frame) ==
    /\ FromFrame(frame).ok
    /\ FromFrame(frame).cmd.kind = "subscribe"
    /\ HandlerSubscribe(s, FromFrame(frame).cmd.channels)

\* subscribe_to_channel: dst.write_frame(&resp).await? returns Ok
ViewConfirm(s) ==
    /\ sub[s].pc = "confirm"
    /\ WriteFrame(MakeSubscribeFrame(sub[s].chan,
                                     Len(sub[s].subscriptions))).outcome = "ok"
    /\ SubConfirm(s)

\* subscribe_to_channel: dst.write_frame(&resp).await? returns the Err of
\* write_decimal and Subscribe::apply returns it
ViewConfirmFailed(s) ==
    /\ sub[s].pc = "confirm"
    /\ WriteFrame(MakeSubscribeFrame(sub[s].chan,
                                     Len(sub[s].subscriptions))).outcome # "ok"
    /\ SubReturn(s)

\* the frame handle_command writes for the channel at the head of
\* unsubscribe.channels
UnsubscribeResp(s) ==
    MakeUnsubscribeFrame(Head(sub[s].todo),
                         Len(StreamMapRemove(sub[s].subscriptions, Head(sub[s].todo))))

\* handle_command: subscriptions.remove, dst.write_frame(&resp).await? is Ok
ViewUnsubscribeOne(s) ==
    /\ sub[s].pc = "unsub"
    /\ WriteFrame(UnsubscribeResp(s)).outcome = "ok"
    /\ SubUnsubscribeOne(s)

\* handle_command: dst.write_frame(&resp).await? returns the Err of
\* write_decimal; handle_command and Subscribe::apply return it
ViewUnsubscribeFailed(s) ==
    /\ sub[s].pc = "unsub"
    /\ WriteFrame(UnsubscribeResp(s)).outcome # "ok"
    /\ SubReturn(s)

\* mutant of OtherCommand: the command ends the subscriptions
OtherCommandLeaves(subscriptions, command) ==
    [subscriptions |-> <<>>, name |-> GetName(command)]

\* handle_command, `command => { Unknown::new(command.get_name()) .. }`: the
\* subscriptions are not touched and the name goes to Unknown
OtherCommand(subscriptions, command) ==
    [subscriptions |-> subscriptions, name |-> GetName(command)]

\* handle_command, the arm of any other command: cmd.apply(dst) writes the
\* Error frame of Unknown
SubReadOther(s, command) ==
    /\ sub[s].pc = "select"
    /\ FramesRead < MaxFrames
    /\ LET r == OtherCommand(sub[s].subscriptions, command)
       IN  /\ WriteFrame(UnknownResponse(r.name)).outcome = "ok"
           /\ sub' = [sub EXCEPT ![s].subscriptions = r.subscriptions,
                                 ![s].frames = @ + 1,
                                 ![s].last = command]
           /\ out' = [out EXCEPT ![s] = Append(@, ErrorReply(r.name))]
    /\ UNCHANGED <<pub_sub, published, pubret, confirmed, owed>>

\* handle_command: Command::from_frame(frame)? returns Err, which
\* Subscribe::apply returns; subscriptions is dropped
SubReadMalformed(s) ==
    /\ sub[s].pc = "select"
    /\ FramesRead < MaxFrames
    /\ pub_sub' = DropAll(pub_sub, sub[s].subscriptions)
    /\ sub' = [sub EXCEPT ![s] = [IdleSub EXCEPT !.pc = "closed",
                                                 !.frames = sub[s].frames + 1]]
    /\ confirmed' = [confirmed EXCEPT ![s] = {}]
    /\ owed' = [owed EXCEPT ![s] = {}]
    /\ UNCHANGED <<out, published, pubret>>

\* Subscribe::apply, select!: res = dst.read_frame() is Some(frame);
\* handle_command(frame, ..)
ViewRead(s, frame) ==
    LET r == FromFrame(frame)
    IN  IF ~r.ok THEN SubReadMalformed(s)
        ELSE CASE r.cmd.kind = "subscribe" -> SubReadSubscribe(s, r.cmd.channels)
               [] r.cmd.kind = "unsubscribe" -> SubReadUnsubscribe(s, r.cmd.channels)
               [] OTHER -> SubReadOther(s, r.cmd)

\* Subscribe::apply, select!: the end of the stream or the shutdown signal
ViewReturn(s) ==
    /\ sub[s].pc = "select"
    /\ SubReturn(s)

ViewStep ==
    \/ \E s \in ViewSubscribers, frame \in ViewFrames : ViewEnter(s, frame)
    \/ \E s \in ViewSubscribers : SubDbSubscribe(s)
    \/ \E s \in ViewSubscribers : SubInsert(s)
    \/ \E s \in ViewSubscribers : ViewConfirm(s)
    \/ \E s \in ViewSubscribers : ViewConfirmFailed(s)
    \/ \E s \in ViewSubscribers, frame \in ViewFrames : ViewRead(s, frame)
    \/ \E s \in ViewSubscribers : ViewUnsubscribeOne(s)
    \/ \E s \in ViewSubscribers : ViewUnsubscribeFailed(s)
    \/ \E s \in ViewSubscribers : ViewReturn(s)

ViewNext == ViewStep /\ UNCHANGED <<storeVars, serverVars, connVars, codecVars, watchVars>>

ViewSpec == Init /\ [][ViewNext]_vars

\* --------------------------------------------------- subscribe loop: claims

\* the channels of the subscription view of s
View(s) == {sub[s].subscriptions[i].name : i \in 1..Len(sub[s].subscriptions)}

\* C18: each requested channel is subscribed in request order and confirmed
\* with one `subscribe` frame that carries its name and the number of
\* distinct channels of the view right after it was added.
C18_SubscribeConfirmed ==
    [][\A s \in ViewSubscribers :
          /\ (sub[s].pc = "drain" /\ sub'[s].pc # "drain") =>
                /\ sub'[s].pc = "insert"
                /\ sub'[s].channels = Tail(sub[s].channels)
                /\ \A rx \in sub'[s].rx : rx.name = Head(sub[s].channels)
          /\ (sub[s].pc = "insert" /\ sub'[s].pc # "insert") =>
                /\ sub'[s].pc = "confirm"
                /\ \A rx \in sub[s].rx :
                      /\ sub'[s].chan = rx.name
                      /\ View(s)' = View(s) \cup {rx.name}
          /\ (sub[s].pc = "confirm" /\ sub'[s].pc # "confirm") =>
                out'[s] = Append(out[s],
                                 SubscribeFrame(sub[s].chan, Cardinality(View(s))))]_vars

\* C19: an `unsubscribe` in the loop processes the channels it names, or all
\* the channels of the view when it names none; each channel processed is
\* removed from the view and answered with one `unsubscribe` frame carrying
\* the number of channels that remain; after an unsubscribe without names
\* the view is empty.
C19_UnsubscribeConfirmed ==
    [][\A s \in ViewSubscribers :
          /\ (/\ sub[s].pc = "select"
              /\ sub'[s].frames = sub[s].frames + 1
              /\ sub'[s].last.kind = "unsubscribe") =>
                IF sub'[s].last.channels = <<>>
                THEN {sub'[s].todo[i] : i \in 1..Len(sub'[s].todo)} = View(s)
                ELSE sub'[s].todo = sub'[s].last.channels
          /\ (sub[s].pc = "unsub" /\ sub'[s] # sub[s]) =>
                /\ View(s)' = View(s) \ {Head(sub[s].todo)}
                /\ sub'[s].todo = Tail(sub[s].todo)
                /\ out'[s] = Append(out[s],
                                    UnsubscribeFrame(Head(sub[s].todo),
                                                     Cardinality(View(s)')))
          /\ (/\ sub'[s].pc = "select"
              /\ sub'[s].last.kind = "unsubscribe"
              /\ sub'[s].last.channels = <<>>) => View(s)' = {}]_vars

\* C20: a get, set, publish or unknown command read inside the loop is
\* answered with one Error frame of Unknown; the store, the channels and
\* the count of publishes are untouched, and the connection keeps its
\* subscriptions and stays in the loop.
C20_OtherCommandAnswered ==
    [][\A s \in ViewSubscribers :
          (/\ sub[s].pc = "select"
           /\ sub'[s].frames = sub[s].frames + 1
           /\ sub'[s].last.kind \in Answered) =>
             /\ out'[s] = Append(out[s], ErrorReply(GetName(sub'[s].last)))
             /\ sub'[s].pc = "select"
             /\ sub'[s].subscriptions = sub[s].subscriptions
             /\ sub'[s].channels = sub[s].channels
             /\ UNCHANGED <<entries, expirations, pub_sub, published, confirmed>>]_vars

\* a connection subscribed to two channels was sent the Error frame for a
\* `publish` and is still in the loop with both subscriptions
C20_Witness ==
    \E s \in ViewSubscribers :
       /\ sub[s].pc = "select"
       /\ sub[s].last.kind = "publish"
       /\ Cardinality(View(s)) = 2
       /\ Len(out[s]) = 3
       /\ out[s][3] = ErrorReply("publish")

\* C21: once Subscribe::apply runs, the connection never returns to the
\* commands of Handler::run, and the loop is left only from its select!
\* (end of stream, shutdown signal, error of read_frame or from_frame) or on
\* the error of a write_frame; a confirmation that was written, also the one
\* for the last channel of the view, leaves the connection in the loop.
C21_LoopOwnsConnection ==
    [][\A s \in ViewSubscribers :
          /\ sub[s].pc # "idle" => sub'[s].pc # "idle"
          /\ (sub[s].pc # "closed" /\ sub'[s].pc = "closed") =>
                /\ sub[s].pc \in {"select", "confirm", "unsub"}
                /\ out'[s] = out[s]
          /\ UNCHANGED <<entries, published>>]_vars

\* the client has unsubscribed from every channel and the connection is
\* still in the loop, at its select!
C21_Witness ==
    \E s \in ViewSubscribers :
       /\ sub[s].pc = "select"
       /\ sub[s].last.kind = "unsubscribe"
       /\ View(s) = {}
       /\ Len(out[s]) = 4
       /\ out[s][4].type = "unsubscribe"
       /\ out[s][4].num = 0

\* ------------------------------------- one connection: order of responses

\* frame is the response the apply of a command of that kind writes
Answers(kind, frame) ==
    CASE kind = "get" -> frame.t \in {"Bulk", "Null"}
      [] kind = "set" -> frame = Simple("OK")
      [] kind = "publish" -> frame.t = "Integer"
      [] kind = "unknown" -> frame.t = "Error"
      [] OTHER -> FALSE

\* C22: outside a subscription a frame is read only when every command read
\* before it has been answered, the frames sent are the responses of the
\* commands read, in their order, and the handler never ends with a command
\* unanswered unless the stream to the client failed.
C22_ResponsesInOrder ==
    [][/\ nread' = nread + 1 => (conn.cmd = {} /\ Len(sent) = Len(conn.asked))
       /\ Len(sent') <= Len(conn'.asked)
       /\ \A i \in 1..Len(sent') : Answers(conn'.asked[i], sent'[i])
       /\ (conn.pc # "done" /\ conn'.pc = "done" /\ conn'.exit # "io") =>
             Len(sent') = Len(conn'.asked)]_vars

\* ===================================================================
\* The store under Db::set, the reaper and the clock alone (Db::get changes
\* nothing of the State): the claims about what a set leaves behind.
\* ===================================================================

SetSpec == Init /\ [][StoreLiveNext]_vars

\* the records of the expiration index that name key k
RecordsOf(exps, k) == {p \in DOMAIN exps : exps[p] = k}

\* C23: a Db::set on key k is atomic and what it leaves for k is entirely its
\* own, also when another client's set on k is still between its unlock and
\* its notify: the value, an id larger than every id given before, its
\* expiration, and in the index its own record and no other record for k.
C23_SecondSetWins ==
    [][\A c \in Clients, k \in Keys, v \in Values, e \in Expires :
          (next_id' # next_id /\ Set(c, k, v, e)) =>
             /\ entries'[k] = [id |-> next_id, data |-> v,
                               expires_at |-> {now + d : d \in e}]
             /\ \A j \in DOMAIN entries : entries[j].id < entries'[k].id
             /\ RecordsOf(expirations', k) = {<<now + d, next_id>> : d \in e}]_vars

\* client c1 has set "foo" with an expiration and has not yet notified the
\* reaper; client c2 has then set "foo" without expiration: the entry is
\* that of c2 and the index holds nothing
C23_Witness ==
    /\ cli["c1"] = "notify"
    /\ cli["c2"] = "idle"
    /\ next_id = 2
    /\ "foo" \in DOMAIN entries
    /\ entries["foo"] = [id |-> 1, data |-> "v2", expires_at |-> {}]
    /\ DOMAIN expirations = {}

\* C24: two keys whose expirations fall on the same instant have two records
\* in the expiration index, told apart by the entry id, and a run of
\* purge_expired_keys while the store is not shut down removes every record
\* whose instant has been reached together with the entry it names: no due
\* record and no entry of a due record is left behind.
C24_SameInstantBothPurged ==
    [][/\ \A k1 \in DOMAIN entries, k2 \in DOMAIN entries :
             (k1 # k2 /\ entries[k1].expires_at # {}
                      /\ entries[k1].expires_at = entries[k2].expires_at) =>
                \A w \in entries[k1].expires_at :
                   /\ entries[k1].id # entries[k2].id
                   /\ {<<w, entries[k1].id>>, <<w, entries[k2].id>>}
                         \subseteq DOMAIN expirations
                   /\ expirations[<<w, entries[k1].id>>] = k1
                   /\ expirations[<<w, entries[k2].id>>] = k2
       /\ (ReaperPurge /\ ~shutdown) =>
             /\ \A p \in DOMAIN expirations :
                   p[1] <= now => /\ p \notin DOMAIN expirations'
                                  /\ expirations[p] \notin DOMAIN entries'
             /\ \A p \in DOMAIN expirations :
                   p[1] > now => /\ p \in DOMAIN expirations'
                                 /\ expirations[p] \in DOMAIN entries']_vars

\* "foo" and "bar" were both set to expire at the same instant, under
\* different ids, and one run of the purge has removed both entries and
\* both records
C24_Witness ==
    /\ purgedAfter["foo"]
    /\ purgedAfter["bar"]
    /\ \E f \in lastSet["foo"], b \in lastSet["bar"] :
          /\ f.expires_at # {}
          /\ f.expires_at = b.expires_at
    /\ next_id = 2
    /\ DOMAIN entries = {}
    /\ DOMAIN expirations = {}
    /\ ~shutdown

\* ===================================================================
\* The two namespaces of the State (src/src/db.rs): the key-value entries
\* and the pub/sub channels live in two maps behind one mutex.  The
\* operations of Db are taken here as functions of the whole State, and a
\* key and a channel have the same name.
\* ===================================================================

\* the name used both as a key and as a channel
SharedNames == {"foo"}

\* the State behind the mutex
StateOf ==
    [entries |-> entries, pub_sub |-> pub_sub, expirations |-> expirations,
     next_id |-> next_id, shutdown |-> shutdown]

\* mutant of StateSet: one map holds keys and channels, so the insert of a
\* key replaces the channel of that name
StateSetOneMap(state, key, value, expire, t) ==
    LET r == DbSetLocked(state.entries, state.expirations, state.next_id,
                         key, value, expire, t)
    IN  [state EXCEPT !.entries = r.entries, !.expirations = r.expirations,
                      !.next_id = r.next_id,
                      !.pub_sub = MapRemove(@, key)]

\* Db::set: state.next_id, state.expirations and state.entries are written
StateSet(state, key, value, expire, t) ==
    LET r == DbSetLocked(state.entries, state.expirations, state.next_id,
                         key, value, expire, t)
    IN  [state EXCEPT !.entries = r.entries, !.expirations = r.expirations,
                      !.next_id = r.next_id]

\* Shared::purge_expired_keys: state.entries and state.expirations are written
StatePurge(state, t) ==
    LET r == PurgeExpiredKeys(state.entries, state.expirations, state.shutdown, t)
    IN  [state EXCEPT !.entries = r.entries, !.expirations = r.expirations]

\* Db::subscribe: state.pub_sub.entry(key)
StateSubscribe(state, key) ==
    [state EXCEPT !.pub_sub = DbSubscribe(@, key).pub_sub]

\* Db::publish: state.pub_sub.get(key), and the send on the channel found
StatePublish(state, key, m) ==
    [state EXCEPT !.pub_sub = DbPublish(@, key, m).pub_sub]

\* the fields of the key-value namespace are those of state st
KeySpaceBecomes(st) ==
    /\ entries' = st.entries
    /\ expirations' = st.expirations
    /\ next_id' = st.next_id
    /\ shutdown' = st.shutdown

NsSet(c, key, value, expire) ==
    /\ Set(c, key, value, expire)
    /\ pub_sub' = StateSet(StateOf, key, value, expire, now).pub_sub
    /\ UNCHANGED <<sub, out, published, pubret, confirmed, owed>>

NsGet(c, key) == Get(c, key) /\ UNCHANGED pubsubVars

NsPurge ==
    /\ ReaperPurge
    /\ pub_sub' = StatePurge(StateOf, now).pub_sub
    /\ UNCHANGED <<sub, out, published, pubret, confirmed, owed>>

NsSubscribe(s) ==
    /\ SubDbSubscribe(s)
    /\ KeySpaceBecomes(StateSubscribe(StateOf, Head(sub[s].channels)))
    /\ UNCHANGED <<background_task, now, reaper, cli, got, lastSet, purgedAfter>>

NsPublish(c, m) ==
    /\ Publish(c, m)
    /\ KeySpaceBecomes(StatePublish(StateOf, c, [msg |-> m, id |-> published + 1]))
    /\ UNCHANGED <<background_task, now, reaper, cli, got, lastSet, purgedAfter>>

NamespaceStep ==
    \/ Tick /\ UNCHANGED pubsubVars
    \/ \E k \in SharedNames : NsGet("c1", k)
    \/ \E k \in SharedNames, e \in Expires : NsSet("c1", k, "v1", e)
    \/ SetNotify("c1") /\ UNCHANGED pubsubVars
    \/ ReaperCheck /\ UNCHANGED pubsubVars
    \/ NsPurge
    \/ ReaperNotified /\ UNCHANGED pubsubVars
    \/ ReaperTimeout /\ UNCHANGED pubsubVars
    \/ \E c \in SharedNames : HandlerSubscribe("s1", <<c>>) /\ UNCHANGED storeVars
    \/ NsSubscribe("s1")
    \/ SubInsert("s1") /\ UNCHANGED storeVars
    \/ SubConfirm("s1") /\ UNCHANGED storeVars
    \/ \E i \in 1..Len(sub["s1"].subscriptions) : SubMessage("s1", i) /\ UNCHANGED storeVars
    \/ \E c \in SharedNames, m \in Payloads : NsPublish(c, m)

NamespaceNext == NamespaceStep /\ UNCHANGED <<serverVars, connVars, codecVars, watchVars>>

NamespaceSpec == Init /\ [][NamespaceNext]_vars

\* C25: the key-value namespace and the channel namespace never interact,
\* also for a key and a channel of the same name: a step of Db::set (it takes
\* an id), of Db::get (it hands out a result) or of the purge leaves the
\* channel map, with the messages every channel holds and the position of
\* every receiver, unchanged, and a step of Db::subscribe or Db::publish
\* leaves entries, expirations and next_id unchanged.
C25_NamespacesApart ==
    [][/\ (\/ next_id' # next_id
           \/ got' # got
           \/ (reaper.pc = "purge" /\ reaper'.pc # "purge")) =>
             UNCHANGED <<pub_sub, sub, out>>
       /\ (\/ \E s \in Subscribers :
                 sub[s].pc = "drain" /\ sub'[s].pc = "insert"
           \/ published' # published) =>
             UNCHANGED <<entries, expirations, next_id>>]_vars

\* "foo" is a key with a value and an expiration and a channel with one
\* receiver and a message, and a get of "foo" has returned the value
C25_Witness ==
    /\ "foo" \in DOMAIN entries
    /\ entries["foo"].expires_at # {}
    /\ "foo" \in DOMAIN pub_sub
    /\ pub_sub["foo"].rx_cnt = 1
    /\ Len(pub_sub["foo"].log) = 1
    /\ got = [key |-> "foo", val |-> {entries["foo"].data}]

\* C26: Listener::accept.  Every call starts with a backoff of one second;
\* a successful attempt returns the socket at once (the handler is spawned)
\* whatever the number of failures before it; a failed attempt is followed by
\* a sleep of the current backoff, which is one of 1, 2, 4, 8, 16, 32, 64
\* seconds, and the backoff doubles after the sleep; the error is returned
\* only by the attempt that fails after the sleep of 64 seconds, the 8th
\* failure in a row.
C26_AcceptBackoff ==
    [][/\ (run.pc = "acquire" /\ run'.pc = "accept") => run'.backoff = 1
       /\ (run.pc = "accept" /\ run'.pc = "acquire") =>
             /\ spawned' = spawned + 1
             /\ hs'[spawned'].pc = "loop"
       /\ (run.pc = "accept" /\ run'.pc = "sleep") =>
             /\ run.backoff \in {1, 2, 4, 8, 16, 32, 64}
             /\ run'.backoff = run.backoff
       /\ (run.pc = "sleep" /\ run'.pc = "accept") =>
             run'.backoff = 2 * run.backoff
       /\ (run.pc = "accept" /\ run'.ended = "accept_failed") =>
             run.backoff = 2 * MaxBackoff
       /\ (run.pc = "accept" /\ run.backoff = 2 * MaxBackoff /\ run' # run) =>
             run'.pc \in {"acquire", "teardown"}]_vars

\* a second call of accept has failed eight times in a row and has returned
\* the error, after the first call returned a socket
C26_Witness ==
    /\ run.ended = "accept_failed"
    /\ run.backoff = 2 * MaxBackoff
    /\ spawned = 1

\* ===================================================================
\* Part 8, Connection::read_frame on a stream that delivers its bytes in
\* chunks (src/src/connection.rs): the peer sends the encodings of some
\* frames, possibly cut short or followed by other bytes, and closes.
\* ===================================================================

\* the number of frames the peer encodes
MaxStream == 2

\* the frames the peer encodes: a status, a text with a line break in it,
\* the null bulk, and an array of a bulk and a number
ReadFrames ==
    {Simple("OK"), Simple("a\r\nb"), Null, Array(<<Bulk("k"), Integer(7)>>)}

\* the sequences of at most MaxStream frames
ReadStreams == UNION {[1..n -> ReadFrames] : n \in 0..MaxStream}

\* bytes that are not the encoding of a frame: a bulk that starts like the
\* null bulk
Junk == {"", "$-1xx"}

\* the sizes of the reads that deliver a part of what the peer has sent
MaxChunk == 2

\* the encoding of a frame: the bytes write_frame emits for it
Encode(frame) == WriteFrame(frame).bytes

\* the encodings of the frames of fs from the i-th on, one after the other
RECURSIVE Concat(_, _)
Concat(fs, i) ==
    IF i > Len(fs) THEN "" ELSE Encode(fs[i]) \o Concat(fs, i + 1)

\* the result of Connection::parse_frame: kind is "frame" (Ok(Some)), "none"
\* (Ok(None)) or the error returned; buffer is the read buffer afterwards
ParsedFrame(kind, frame, buffer) ==
    [kind |-> kind, frame |-> frame, buffer |-> buffer]

\* Connection::parse_frame: Frame::check on a cursor over the buffer, then
\* Frame::parse from position 0 and self.buffer.advance(len)
ParseFrame(buffer) ==
    LET checked == Check(Cursor(buffer, 0))
        parsed == Parse(Cursor(buffer, 0))
    IN  IF checked.err = "Incomplete" THEN ParsedFrame("none", Null, buffer)
        ELSE IF checked.err # "" THEN ParsedFrame(checked.err, Null, buffer)
        ELSE IF parsed.err # "" THEN ParsedFrame(parsed.err, Null, buffer)
        ELSE ParsedFrame("frame", parsed.frame,
                         SubSeq(buffer, checked.pos + 1, Len(buffer)))

\* mutant of AtEof: the end of the stream is always a clean close
AtEofClean(buffer) == "none"

\* Connection::read_frame, read_buf returned 0: Ok(None) on an empty buffer,
\* else Err("connection reset by pear")
AtEof(buffer) == IF buffer = "" THEN "none" ELSE "reset"

\* the peer encodes the frames fs and sends the encodings followed by junk
ReaderOpen(fs, junk) ==
    /\ rd.pc = "closed"
    /\ rd' = [rd EXCEPT !.pc = "idle", !.wire = Concat(fs, 1) \o junk,
                        !.frames = fs, !.whole = (junk = "")]

\* the caller calls read_frame
ReadFrame ==
    /\ rd.pc = "idle"
    /\ rd' = [rd EXCEPT !.pc = "parse"]

\* read_frame: self.parse_frame()?
ReadParse ==
    /\ rd.pc = "parse"
    /\ LET r == ParseFrame(rd.buffer)
       IN  rd' = CASE r.kind = "frame" ->
                        [rd EXCEPT !.pc = "idle", !.buffer = r.buffer,
                                   !.got = Append(@, r.frame), !.res = "frame"]
                   [] r.kind = "none" -> [rd EXCEPT !.pc = "read"]
                   [] OTHER -> [rd EXCEPT !.pc = "done", !.res = r.kind]

\* read_frame: read_buf appends n bytes of the stream to the buffer
ReadBuf(n) ==
    /\ rd.pc = "read"
    /\ n \in 1..Len(rd.wire)
    /\ rd' = [rd EXCEPT !.pc = "parse",
                        !.buffer = @ \o SubSeq(rd.wire, 1, n),
                        !.wire = SubSeq(@, n + 1, Len(@))]

\* read_frame: read_buf returns 0: the peer has closed, after all it had to
\* send or before
ReadEof ==
    /\ rd.pc = "read"
    /\ rd' = [rd EXCEPT !.pc = "done", !.res = AtEof(rd.buffer)]

\* read_frame: read_buf(..).await? fails
ReadErr ==
    /\ rd.pc = "read"
    /\ rd' = [rd EXCEPT !.pc = "done", !.res = "io"]

\* a read delivers a few bytes, or all the peer has sent
ReaderStep ==
    \/ \E fs \in ReadStreams, junk \in Junk : ReaderOpen(fs, junk)
    \/ ReadFrame
    \/ ReadParse
    \/ \E n \in (1..MaxChunk) \cup {Len(rd.wire)} : ReadBuf(n)
    \/ ReadEof
    \/ ReadErr

ReaderNext ==
    ReaderStep /\ UNCHANGED <<storeVars, serverVars, pubsubVars, connVars, codec, watchVars>>

ReaderSpec == Init /\ [][ReaderNext]_vars

\* C27: when read_buf reports the end of the stream, read_frame returns
\* Ok(None) if and only if the read buffer is empty and the connection-reset
\* error when bytes are left in it; and while Frame::check on the buffer
\* says Incomplete, read_frame returns nothing to its caller but goes on to
\* read from the stream.
C27_EofCleanOrReset ==
    [][/\ (rd.pc = "read" /\ rd'.pc = "done" /\ rd'.res # "io") =>
             /\ rd'.res = "none" <=> rd.buffer = ""
             /\ rd'.res = "reset" <=> rd.buffer # ""
       /\ (rd.pc = "parse" /\ Check(Cursor(rd.buffer, 0)).err = "Incomplete") =>
             /\ rd'.pc = "read"
             /\ rd'.res = rd.res
             /\ rd'.buffer = rd.buffer]_vars

\* the peer sent `+OK\r\n` and the first bytes of an array and closed: the
\* first call returned the Simple frame, the second the connection reset
C27_Witness ==
    /\ rd.pc = "done"
    /\ rd.res = "reset"
    /\ rd.got = <<Simple("OK")>>
    /\ rd.buffer = "*2\r\n$1\r\nk"

\* the first n elements of a sequence
Prefix(seq, n) == SubSeq(seq, 1, n)

\* C28: when the peer sends the encodings of the frames f1..fn and nothing
\* else, then however the reads cut the bytes, the calls of read_frame
\* return f1..fn in this order and then Ok(None): every frame returned is the
\* next of f1..fn, a call that returns a frame removes the bytes of its
\* encoding from the front of the buffer and keeps the rest, and once the
\* peer has sent everything no call returns an error of its own.
C28_FramesInOrder ==
    [][rd'.whole =>
          /\ Len(rd'.got) <= Len(rd'.frames)
          /\ rd'.got = Prefix(rd'.frames, Len(rd'.got))
          /\ (rd.pc = "parse" /\ rd'.res = "frame" /\ rd'.pc = "idle") =>
                rd.buffer = Encode(rd'.got[Len(rd'.got)]) \o rd'.buffer
          /\ (rd'.pc = "done" /\ rd'.wire = "") =>
                \/ rd'.res = "io"
                \/ rd'.res = "none" /\ rd'.got = rd'.frames]_vars

\* C29: the only record the expiration index holds for a key is that of the
\* key's current entry, so a set on a key whose entry had an expiration has
\* removed the old record; and from a set of key k without expiration until
\* the next set of k, whatever time passes and however often the purge
\* runs, k has no record in the index and its entry holds the value set, the
\* value Db::get hands out.
C29_OldRecordRemoved ==
    \A k \in Keys :
       /\ MapGet(entries, k) = {} => RecordsOf(expirations, k) = {}
       /\ \A e \in MapGet(entries, k) :
             RecordsOf(expirations, k) = {<<w, e.id>> : w \in e.expires_at}
       /\ \A ls \in lastSet[k] :
             ls.expires_at = {} =>
                /\ RecordsOf(expirations, k) = {}
                /\ DbGet(entries, k) = {ls.data}

\* "foo" was set with an expiration at instant 1 (the reaper still sleeps
\* until then) and set again without expiration to "v2"; the instant has
\* passed, the index is empty and a get of "foo" has returned "v2"
C29_Witness ==
    /\ lastSet["bar"] = {}
    /\ lastSet["foo"] = {[data |-> "v2", expires_at |-> {}]}
    /\ reaper = [pc |-> "sleep", when |-> {1}]
    /\ now = 2
    /\ next_id = 2
    /\ DOMAIN expirations = {}
    /\ got = [key |-> "foo", val |-> {"v2"}]

\* C30: a Db::set (the step that takes an id) is followed by notify_one if
\* and only if it was given an expiration and every instant that was in the
\* index before it is strictly later than the new one (none, when the index
\* was empty); the set itself stores no permit, and a permit is stored only
\* by the notify_one of a set that has to wake the reaper.
C30_NotifyIffEarliest ==
    [][/\ next_id' # next_id =>
             LET k  == CHOOSE x \in DOMAIN entries' : entries'[x].id = next_id
                 at == entries'[k].expires_at
             IN  /\ (\E c \in Clients : cli[c] = "idle" /\ cli'[c] = "notify")
                       <=> (/\ at # {}
                            /\ \A p \in DOMAIN expirations : \A w \in at : w < p[1])
                 /\ background_task' = background_task
       /\ (~background_task /\ background_task') =>
             \E c \in Clients : cli[c] = "notify" /\ cli'[c] = "idle"]_vars

\* client c1 has set "foo" to expire at instant 2 and is about to notify;
\* client c2 has then set "bar" to expire at the same instant, which is not
\* earlier, and has returned without notifying: no permit is stored and the
\* reaper has not been woken
C30_Witness ==
    /\ cli = [c \in Clients |-> IF c = "c1" THEN "notify" ELSE "idle"]
    /\ DOMAIN entries = {"foo", "bar"}
    /\ entries["foo"].id = 0
    /\ entries["foo"].expires_at = {2}
    /\ entries["bar"].id = 1
    /\ entries["bar"].expires_at = {2}
    /\ ~background_task
    /\ reaper = [pc |-> "wait", when |-> {}]

\* ===================================================================
\* Db::get watched: the store under the sets and gets of one client, the
\* reaper and the clock, with the ghost `stale` set by every get.
\* ===================================================================

\* the entry of key k has an expiration instant that is not later than now
Overdue(k) == \E e \in MapGet(entries, k) : \E w \in e.expires_at : w <= now

\* Db::get by client c, watched
WatchedGet(c, k) ==
    /\ Get(c, k)
    /\ stale' = Overdue(k)

WatchStep ==
    \/ Tick /\ UNCHANGED stale
    \/ \E k \in Keys : WatchedGet("c1", k)
    \/ \E k \in Keys, v \in Values, e \in Expires : Set("c1", k, v, e) /\ UNCHANGED stale
    \/ SetNotify("c1") /\ UNCHANGED stale
    \/ ReaperStep /\ UNCHANGED stale

WatchNext == WatchStep /\ UNCHANGED <<serverVars, pubsubVars, connVars, codecVars>>

WatchSpec == Init /\ [][WatchNext]_vars

\* C31: Db::get hands out the value of the entry stored under the key,
\* whatever the entry's expiration: also when the expiration instant has
\* been reached and the purge has not yet removed the entry.
C31_GetIgnoresExpiration ==
    [][\A k \in Keys :
          (Get("c1", k) /\ stale' = Overdue(k)) =>
             got'.val = {e.data : e \in MapGet(entries, k)}]_vars

\* "foo" expires at an instant that has been reached, the reaper has not
\* yet removed it, and the last get found it overdue and returned its value
C31_Witness ==
    /\ stale
    /\ got.key = "foo"
    /\ "foo" \in DOMAIN entries
    /\ got.val = {entries["foo"].data}
    /\ \E w \in entries["foo"].expires_at : w <= now

\* the entries of a map whose key satisfies keep(_)
Restrict(m, keep(_)) == [x \in {y \in DOMAIN m : keep(y)} |-> m[x]]

\* C32: one run of purge_expired_keys.  On a store that is not shut down it
\* leaves exactly the entries without expiration or with an expiration later
\* than now, each as it was, and exactly the index records with an instant
\* later than now, and it returns the earliest instant left in the index,
\* or none; on a store that is shut down it removes nothing and returns none.
C32_PurgeExact ==
    [][(reaper.pc = "purge" /\ reaper'.pc # "purge") =>
          IF shutdown
          THEN /\ entries' = entries
               /\ expirations' = expirations
               /\ reaper'.when = {}
          ELSE LET live(k) == \A w \in entries[k].expires_at : w > now
                   later(p) == p[1] > now
               IN  /\ entries' = Restrict(entries, live)
                   /\ expirations' = Restrict(expirations, later)
                   /\ reaper'.when \subseteq {p[1] : p \in DOMAIN expirations'}
                   /\ \A p \in DOMAIN expirations' :
                         \E w \in reaper'.when : w <= p[1]]_vars

\* a purge has removed "foo", whose instant had been reached, and has left
\* "bar", which expires later, with its record, and the reaper sleeps until
\* the instant of "bar"
C32_Witness ==
    /\ purgedAfter["foo"]
    /\ DOMAIN entries = {"bar"}
    /\ entries["bar"].expires_at # {}
    /\ DOMAIN expirations = {<<w, entries["bar"].id>> : w \in entries["bar"].expires_at}
    /\ reaper = [pc |-> "sleep", when |-> entries["bar"].expires_at]
    /\ ~shutdown

\* C33: among the frames written to a connection, a `message` frame for
\* channel c never comes after an `unsubscribe` frame for c unless a
\* `subscribe` frame for c was written between the two, whenever the
\* message was published.
C33_NoMessageAfterUnsubscribe ==
    \A s \in Subscribers :
       \A i \in 1..Len(out[s]), j \in 1..Len(out[s]) :
          (/\ i < j
           /\ out[s][i].type = "unsubscribe"
           /\ out[s][j].type = "message"
           /\ out[s][j].chan = out[s][i].chan) =>
             \E k \in (i + 1)..(j - 1) :
                /\ out[s][k].type = "subscribe"
                /\ out[s][k].chan = out[s][i].chan

\* connection s1 subscribed to "a" and unsubscribed from it while a message
\* published to "a" was still waiting in the channel; a second publish to
\* "a" found no receiver; s1 is back in its select! and was sent no message
C33_Witness ==
    /\ out["s1"] = <<SubscribeFrame("a", 1), UnsubscribeFrame("a", 0)>>
    /\ sub["s1"].pc = "select"
    /\ "a" \in DOMAIN pub_sub
    /\ Len(pub_sub["a"].log) = 1
    /\ published = 2
    /\ pubret = [chan |-> "a", n |-> 0]

\* C34: when subscribe_to_channel stores the stream of a channel the
\* connection is already subscribed to, every message of the channel that
\* the stream being replaced had not yet yielded, and that the channel
\* still holds, is yielded by the new stream.
C34_ResubscribeKeepsMessages ==
    [][\A s \in Subscribers :
          (sub[s].pc = "insert" /\ sub'[s].pc = "confirm") =>
             \A rx \in sub[s].rx :
                LET i == IndexOf(sub[s].subscriptions, rx.name)
                IN  i # 0 =>
                      \A n \in Max(sub[s].subscriptions[i].next,
                                   Oldest(pub_sub[rx.name]))
                               ..Len(pub_sub[rx.name].log) :
                         rx.next <= n]_vars

====
